---------------------------- MODULE Spec2Model ----------------------------
(***************************************************************************)
(* AIONUS RAG core: the sliding-window chunker (splitIntoChunks), the      *)
(* batch embedding functions, the ingestion pipelines (processDocument,    *)
(* storeVectors) and the retriever (retrieveContext).                      *)
(*                                                                         *)
(* Text is a sequence of one-character strings.  Positions are 0-based as  *)
(* in JavaScript; position p of a string s is s[p + 1].                    *)
(***************************************************************************)
EXTENDS Integers, Sequences, FiniteSets, TLC

VARIABLES
    \* ---- splitIntoChunks(text, chunkSize, overlap)
    cpc,        \* "idle" | "loop" | "done"
    text,       \* the argument text
    chunkSize,  \* the argument chunkSize
    overlap,    \* the argument overlap
    cleanText,  \* const cleanText
    start,      \* let start
    chunks,     \* const chunks = []
    spans,      \* for each pushed chunk, the positions of cleanText it holds
    iters,      \* number of loop iterations executed so far
    \* ---- chunkDocument(text, options)
    dpc,            \* "idle" | "loop" | "done"
    dText,          \* the argument text
    dOptions,       \* the argument options
    dChunkSize,     \* const chunkSize
    dOverlap,       \* const overlap
    paragraphs,     \* const paragraphs
    pIdx,           \* the paragraph the for loop is at
    currentChunk,   \* let currentChunk
    dChunks,        \* const chunks = []
    seedLens,       \* for each flush in the loop, the length of overlapWords.join(' ')
    \* ---- environment and stores
    geminiKey,      \* GEMINI_API_KEY is set
    supabaseEnv,    \* SUPABASE_URL and the Supabase key are set
    clientReady,    \* getSupabase() yields a client (not null)
    dbChunks,       \* rows of table document_chunks, in insertion order
    dbEmbeddings,   \* rows of table embeddings, in insertion order
    netCalls,       \* fetch calls made to the embedding provider
    \* ---- retrieveContext(query, topK)
    rpc,            \* where the call is
    query,          \* the argument query
    topK,           \* the argument topK
    queryEmbedding, \* const queryEmbedding
    rpcData,        \* what the match_documents call settled with
    rlog,           \* what happened during the call
    rresult,        \* how the promise of the call settled
    \* ---- processDocument (server) and storeVectors (client)
    pipeline,       \* the entry point called: processDocument or storeVectors
    ipc,            \* where the running pipeline is
    documentId,     \* the argument documentId
    documentType,   \* the argument documentType
    extracted,      \* server: how the awaited extractText settled
    docChunks,      \* the chunk contents of the run
    embeddings,     \* server: const embeddings = []; client: the batch result
    outcomes,       \* what the provider did with each text so far
    idx,            \* the chunk whose fetch or insert is awaited
    pending,        \* client: texts whose generateEmbedding call is in flight
    settled,        \* client: the results of the calls that have settled
    order,          \* client: the order in which the calls settled
    savedCount,     \* let savedCount
    inserts,        \* how each awaited insert settled so far
    result,         \* the value the pipeline resolved to
    \* ---- match_documents / match_embeddings
    mFn,            \* the function called, "none" before the call
    mArgs,          \* its arguments
    mResult,        \* the rows it returned
    \* ---- createLead(payload)
    lpc,            \* where the call is
    payload,        \* the argument payload
    dbLeads,        \* rows of table leads
    leadInsertCalls,    \* inserts into leads attempted
    lresult,        \* the value the call resolved to
    \* ---- the embedding functions called on their own
    eFn,            \* the function called, "none" before the call
    epc,            \* "idle" | "fetching" | "done"
    eTexts,         \* the texts to embed
    ePending,       \* the texts whose fetch is in flight
    eSettled,       \* the fetches that settled, in settling order, with their outcome
    eResult,        \* how the promise of the call settled
    \* ---- GET /api/rag and getSimpleContext(query)
    hpc,            \* where the route handler is
    hresponse,      \* the response the handler sent
    spc,            \* where the getSimpleContext call is
    sresult,        \* the value the getSimpleContext call resolved to
    simpleCalls,    \* calls of getSimpleContext made by the route handler
    \* ---- two runs of processDocument (server)
    runs,           \* for each run, where it is, its arguments and its locals
    rowRun,         \* for each row of document_chunks, the run that inserted it
    \* ---- searchSimilar(query, options)
    qpc,            \* where the call is
    searchQuery,    \* the argument query
    searchOptions,  \* the argument options
    searchArgs,     \* the arguments of the match_embeddings call
    searchResult,   \* the value the call resolved to
    \* ---- POST /webhook (Telegram), one chat
    tgState,        \* the entry of the chat in userStates
    tgHandlers,     \* for each update, where its handler is and the message text
    crmCalls,       \* the pending leads createCRMLead was called with, in call order
    leadSeq,        \* pending leads set by the bot so far
    \* ---- uploadBrochure(file, projectId, documentType)
    upc,            \* where the call is
    uFile,          \* the argument file
    uPath,          \* const storagePath
    bucket,         \* the paths of the files in the storage bucket
    dbDocuments,    \* rows of table documents
    uresult         \* the value the call resolved to

chunkVars == <<cpc, text, chunkSize, overlap, cleanText, start, chunks, spans, iters>>

paraVars == <<dpc, dText, dOptions, dChunkSize, dOverlap, paragraphs, pIdx, currentChunk,
              dChunks, seedLens>>

envVars == <<geminiKey, supabaseEnv, clientReady>>

storeVars == <<dbChunks, dbEmbeddings, netCalls>>

retrVars == <<rpc, query, topK, queryEmbedding, rpcData, rlog, rresult>>

ingestVars == <<pipeline, inserts, ipc, documentId, documentType, extracted, docChunks, embeddings,
                outcomes, idx, pending, settled, order, savedCount, result>>

matchVars == <<mFn, mArgs, mResult>>

leadVars == <<lpc, payload, dbLeads, leadInsertCalls, lresult>>

embedVars == <<eFn, epc, eTexts, ePending, eSettled, eResult>>

ragVars == <<hpc, hresponse, spc, sresult, simpleCalls>>

runVars == <<runs, rowRun>>

searchVars == <<qpc, searchQuery, searchOptions, searchArgs, searchResult>>

tgVars == <<tgState, tgHandlers, crmCalls, leadSeq>>

uploadVars == <<upc, uFile, uPath, bucket, dbDocuments, uresult>>

coreVars == <<chunkVars, paraVars, envVars, storeVars, ingestVars, retrVars, matchVars, leadVars,
              embedVars>>

\* the state of the route handlers, the concurrent runs, the search and the upload
restVars == <<ragVars, runVars, searchVars, tgVars, uploadVars>>

\* for the actions of each of these components, the state of the others
notRagVars == <<runVars, searchVars, tgVars, uploadVars>>
notRunVars == <<ragVars, searchVars, tgVars, uploadVars>>
notSearchVars == <<ragVars, runVars, tgVars, uploadVars>>
notTgVars == <<ragVars, runVars, searchVars, uploadVars>>
notUploadVars == <<ragVars, runVars, searchVars, tgVars>>

vars == <<chunkVars, paraVars, envVars, storeVars, ingestVars, retrVars, matchVars, leadVars,
          embedVars, restVars>>

-----------------------------------------------------------------------------
(* Bounds of the model *)

MaxLen == 6         \* longest text over letters, spaces and periods
MaxNlLen == 3       \* longest text that may also hold newlines
MaxChunkSize == 5   \* chunkSize ranges over 1..MaxChunkSize
MaxOverlap == 4     \* overlap ranges over 0..MaxOverlap
MaxIter == MaxLen + 2   \* iterations followed before a run is given up
MaxParaLen == 6     \* longest text handed to chunkDocument
MaxParaChunk == 3   \* options.chunkSize ranges over 0..MaxParaChunk
MaxDocLen == 13     \* longest text an extraction returns
MaxBatch == 3       \* most chunks handed to storeVectors
\* processDocument chunks with CHUNK_SIZE = 900 and CHUNK_OVERLAP = 100
\* (src/unnamed/part_001:21-22); the model scales both down so that a text of
\* MaxDocLen characters gives several chunks
ScaledChunkSize == 4
ScaledChunkOverlap == 1

-----------------------------------------------------------------------------
(* Strings *)

Min(a, b) == IF a < b THEN a ELSE b
Max(a, b) == IF a > b THEN a ELSE b

PlainChars == {"a", " ", "."}
Chars == PlainChars \cup {"\n"}

SeqsUpTo(S, n) == UNION {[1..k -> S] : k \in 0..n}

Texts == SeqsUpTo(PlainChars, MaxLen) \cup SeqsUpTo(Chars, MaxNlLen)

\* the regular expression class \s, and what String.prototype.trim strips
IsSpace(c) == c \in {" ", "\n"}

\* s.replace(/\s+/g, ' ')
ReplaceWsRuns(s) ==
    LET F[i \in 0..Len(s)] ==
            IF i = 0 THEN <<>>
            ELSE IF ~IsSpace(s[i]) THEN Append(F[i-1], s[i])
            ELSE IF i > 1 /\ IsSpace(s[i-1]) THEN F[i-1]
            ELSE Append(F[i-1], " ")
    IN F[Len(s)]

\* s.replace(/\n+/g, '\n')
ReplaceNlRuns(s) ==
    LET F[i \in 0..Len(s)] ==
            IF i = 0 THEN <<>>
            ELSE IF s[i] # "\n" THEN Append(F[i-1], s[i])
            ELSE IF i > 1 /\ s[i-1] = "\n" THEN F[i-1]
            ELSE Append(F[i-1], "\n")
    IN F[Len(s)]

\* the span <<from, to>> (0-based, half open) left of s[from..to) by trim()
TrimSpan(s, from, to) ==
    LET inner == {p \in from..(to-1) : ~IsSpace(s[p+1])}
    IN IF inner = {} THEN <<from, from>>
       ELSE <<CHOOSE p \in inner : \A q \in inner : p <= q,
              (CHOOSE p \in inner : \A q \in inner : p >= q) + 1>>

\* s.trim()
Trim(s) ==
    LET sp == TrimSpan(s, 0, Len(s)) IN SubSeq(s, sp[1] + 1, sp[2])

\* s.lastIndexOf(c, fromIndex): the last position <= fromIndex holding c, or -1
LastIndexOf(s, c, fromIndex) ==
    LET from == Min(Max(fromIndex, 0), Len(s) - 1)
        hits == {p \in 0..from : s[p+1] = c}
    IN IF hits = {} THEN -1 ELSE CHOOSE p \in hits : \A q \in hits : p >= q

\* the positions <<from, to>> that s.slice(a, b) takes: a negative index counts
\* from the end of the string, and an empty range gives the empty string
SliceSpan(s, a, b) ==
    LET n    == Len(s)
        from == IF a < 0 THEN Max(n + a, 0) ELSE Min(a, n)
        to   == IF b < 0 THEN Max(n + b, 0) ELSE Min(b, n)
    IN IF from < to THEN <<from, to>> ELSE <<from, from>>

-----------------------------------------------------------------------------
(* splitIntoChunks *)

\* CleanText without the final trim()
CleanTextNoTrim(t) == ReplaceNlRuns(ReplaceWsRuns(t))

\* const cleanText = text.replace(/\s+/g, ' ').replace(/\n+/g, '\n').trim()
CleanText(t) == Trim(ReplaceNlRuns(ReplaceWsRuns(t)))

\* the end of the chunk that starts at st: start + chunkSize, snapped to just
\* after the last '.' or '\n' at or before it when that lies beyond
\* start + chunkSize / 2
ChunkEnd(clean, size, st) ==
    LET end == st + size
    IN IF end < Len(clean)
       THEN LET lastPeriod  == LastIndexOf(clean, ".", end)
                lastNewline == LastIndexOf(clean, "\n", end)
                breakPoint  == Max(lastPeriod, lastNewline)
            IN IF 2 * breakPoint > 2 * st + size THEN breakPoint + 1 ELSE end
       ELSE end

\* the positions of cleanText held by cleanText.slice(start, end).trim()
ChunkSpan(clean, st, end) ==
    LET sl == SliceSpan(clean, st, end) IN TrimSpan(clean, sl[1], sl[2])

\* NextStart leaving one character between two chunks
NextStartGap(end, ov) == end - ov + 1

\* NextStart stepping back by twice the overlap
NextStartTwiceBack(end, ov) == end - 2 * ov

\* start = end - overlap
NextStart(end, ov) == end - ov

\* the call, up to the first test of the while loop
SplitEnter(t, size, ov) ==
    /\ text' = t
    /\ chunkSize' = size
    /\ overlap' = ov
    /\ cleanText' = CleanText(t)
    /\ start' = 0
    /\ iters' = 0
    /\ IF Len(cleanText') <= size
       THEN /\ chunks' = <<cleanText'>>
            /\ spans' = <<<<0, Len(cleanText')>>>>
            /\ cpc' = "done"
       ELSE /\ chunks' = <<>>
            /\ spans' = <<>>
            /\ cpc' = "loop"
    /\ UNCHANGED <<envVars, storeVars, ingestVars, retrVars, paraVars, matchVars, leadVars, embedVars, restVars>>

\* one iteration of while (start < cleanText.length)
SplitIter ==
    /\ cpc = "loop"
    /\ start < Len(cleanText)
    /\ iters < MaxIter
    /\ LET end == ChunkEnd(cleanText, chunkSize, start)
           sp  == ChunkSpan(cleanText, start, end)
       IN /\ IF sp[2] > sp[1]
             THEN /\ chunks' = Append(chunks, SubSeq(cleanText, sp[1] + 1, sp[2]))
                  /\ spans' = Append(spans, sp)
             ELSE UNCHANGED <<chunks, spans>>
          /\ start' = NextStart(end, overlap)
    /\ iters' = iters + 1
    /\ UNCHANGED <<cpc, text, chunkSize, overlap, cleanText>>
    /\ UNCHANGED <<envVars, storeVars, ingestVars, retrVars, paraVars, matchVars, leadVars, embedVars, restVars>>

\* the loop test fails: return chunks
SplitExit ==
    /\ cpc = "loop"
    /\ start >= Len(cleanText)
    /\ cpc' = "done"
    /\ UNCHANGED <<text, chunkSize, overlap, cleanText, start, chunks, spans, iters>>
    /\ UNCHANGED <<envVars, storeVars, ingestVars, retrVars, paraVars, matchVars, leadVars, embedVars, restVars>>

ChunkIdle ==
    /\ cpc = "idle"
    /\ text = <<>>
    /\ chunkSize = 1
    /\ overlap = 0
    /\ cleanText = <<>>
    /\ start = 0
    /\ chunks = <<>>
    /\ spans = <<>>
    /\ iters = 0

\* the function as a whole, for the callers that use its result
RECURSIVE SplitLoop(_, _, _, _, _)
SplitLoop(clean, size, ov, st, fuel) ==
    IF st >= Len(clean) \/ fuel = 0 THEN <<>>
    ELSE LET end == ChunkEnd(clean, size, st)
             sp  == ChunkSpan(clean, st, end)
         IN (IF sp[2] > sp[1] THEN <<SubSeq(clean, sp[1] + 1, sp[2])>> ELSE <<>>)
            \o SplitLoop(clean, size, ov, NextStart(end, ov), fuel - 1)

SplitIntoChunks(t, size, ov) ==
    LET clean == CleanText(t)
    IN IF Len(clean) <= size THEN <<clean>>
       ELSE SplitLoop(clean, size, ov, 0, Len(clean) + 1)

SplitCall ==
    /\ cpc = "idle"
    /\ \E t \in Texts, size \in 1..MaxChunkSize, ov \in 0..MaxOverlap :
          SplitEnter(t, size, ov)

ChunkNext ==
    \/ SplitCall
    \/ SplitIter
    \/ SplitExit

-----------------------------------------------------------------------------
(* splitIntoChunks with its default chunkSize and overlap on a text of      *)
(* 2,500 characters                                                         *)

CHUNK_SIZE == 900
CHUNK_OVERLAP == 100

ScenarioLen == 2500     \* length of the text
MinPeriodGap == 440     \* the text has a '.' every gap characters, for
MaxPeriodGap == 470     \* gap in MinPeriodGap..MaxPeriodGap, or no '.' at all

\* a text of n letters with a '.' as every k-th character (none for k = 0); it
\* holds no whitespace, so it is its own cleanText
PeriodicText(n, k) == [i \in 1..n |-> IF k > 0 /\ i % k = 0 THEN "." ELSE "a"]

ScenarioTexts ==
    {PeriodicText(ScenarioLen, k) : k \in {0} \cup MinPeriodGap..MaxPeriodGap}

\* splitIntoChunks(t) for a text t that is normalized already and longer than
\* CHUNK_SIZE, up to the first test of the while loop
SplitEnterNormalized(t) ==
    /\ text' = t
    /\ chunkSize' = CHUNK_SIZE
    /\ overlap' = CHUNK_OVERLAP
    /\ cleanText' = t
    /\ start' = 0
    /\ iters' = 0
    /\ chunks' = <<>>
    /\ spans' = <<>>
    /\ cpc' = "loop"
    /\ UNCHANGED <<envVars, storeVars, ingestVars, retrVars, paraVars, matchVars, leadVars,
                   embedVars, restVars>>

ScenarioCall ==
    /\ cpc = "idle"
    /\ \E t \in ScenarioTexts : SplitEnterNormalized(t)

ScenarioNext ==
    \/ ScenarioCall
    \/ SplitIter
    \/ SplitExit

-----------------------------------------------------------------------------
(* chunkDocument *)

DEFAULT_CHUNK_SIZE == 1000
DEFAULT_OVERLAP == 200

\* s.indexOf(sub): the first position where sub occurs in s, or -1
IndexOf(s, sub) ==
    LET hits == {p \in 0..(Len(s) - Len(sub)) : SubSeq(s, p + 1, p + Len(sub)) = sub}
    IN IF hits = {} THEN -1 ELSE CHOOSE p \in hits : \A q \in hits : p <= q

\* s.split(sep) for a non-empty separator
RECURSIVE SplitBy(_, _)
SplitBy(s, sep) ==
    LET p == IndexOf(s, sep)
    IN IF p = -1 THEN <<s>>
       ELSE <<SubSeq(s, 1, p)>> \o SplitBy(SubSeq(s, p + Len(sep) + 1, Len(s)), sep)

\* parts.join(sep)
RECURSIVE JoinBy(_, _)
JoinBy(parts, sep) ==
    IF parts = <<>> THEN <<>>
    ELSE IF Len(parts) = 1 THEN parts[1]
    ELSE parts[1] \o sep \o JoinBy(Tail(parts), sep)

\* a.slice(-k): the last k elements, and the whole array for k = 0 (slice(-0))
SliceLast(a, k) ==
    IF k = 0 \/ k >= Len(a) THEN a ELSE SubSeq(a, Len(a) - k + 1, Len(a))

PARA_SEPARATOR == <<"\n", "\n">>

\* options.chunkSize || 1000 and options.overlap || 200: 0 stands for an
\* option that is absent or 0
OptionOr(opt, default) == IF opt = 0 THEN default ELSE opt

\* text.split(separator).filter(p => p.trim())
Paragraphs(t) == SelectSeq(SplitBy(t, PARA_SEPARATOR), LAMBDA para : Trim(para) # <<>>)

\* the chunk object pushed for the buffer cur
ChunkObject(t, cur, id) ==
    [id |-> id, content |-> Trim(cur),
     charStart |-> IndexOf(t, cur),
     charEnd |-> IndexOf(t, cur) + Len(cur)]

\* overlapWords.join(' '): the words of the flushed buffer that slice(-floor(overlap / 5))
\* keeps
OverlapSeed(cur, ov) ==
    JoinBy(SliceLast(SplitBy(cur, <<" ">>), ov \div 5), <<" ">>)

\* the buffer after a flush: the overlap words, a space, the paragraph
SeedBuffer(cur, ov, para) ==
    OverlapSeed(cur, ov) \o <<" ">> \o para

ParaIdle ==
    /\ dpc = "idle"
    /\ dText = <<>>
    /\ dOptions = [chunkSize |-> 0, overlap |-> 0]
    /\ dChunkSize = 0
    /\ dOverlap = 0
    /\ paragraphs = <<>>
    /\ pIdx = 0
    /\ currentChunk = <<>>
    /\ dChunks = <<>>
    /\ seedLens = <<>>

\* the call, up to the for loop
ChunkDocument(t, optSize, optOverlap) ==
    /\ dpc = "idle"
    /\ dText' = t
    /\ dOptions' = [chunkSize |-> optSize, overlap |-> optOverlap]
    /\ dChunkSize' = OptionOr(optSize, DEFAULT_CHUNK_SIZE)
    /\ dOverlap' = OptionOr(optOverlap, DEFAULT_OVERLAP)
    /\ paragraphs' = Paragraphs(t)
    /\ pIdx' = 1
    /\ currentChunk' = <<>>
    /\ dChunks' = <<>>
    /\ seedLens' = <<>>
    /\ dpc' = "loop"
    /\ UNCHANGED <<chunkVars, envVars, storeVars, ingestVars, retrVars, matchVars, leadVars, embedVars, restVars>>

OverlapOptions == {0, 1, 3, 5, 10}

ParaTexts == SeqsUpTo(Chars, MaxParaLen)

ChunkDocumentCall ==
    /\ dpc = "idle"
    /\ \E t \in ParaTexts, size \in 0..MaxParaChunk, ov \in OverlapOptions :
          ChunkDocument(t, size, ov)

\* one iteration of for (const paragraph of paragraphs)
ParagraphStep ==
    /\ dpc = "loop"
    /\ pIdx <= Len(paragraphs)
    /\ LET paragraph == paragraphs[pIdx]
       IN IF Len(currentChunk) + Len(paragraph) > dChunkSize /\ Len(currentChunk) > 0
          THEN /\ dChunks' = Append(dChunks, ChunkObject(dText, currentChunk, Len(dChunks)))
               /\ currentChunk' = SeedBuffer(currentChunk, dOverlap, paragraph)
               /\ seedLens' = Append(seedLens, Len(OverlapSeed(currentChunk, dOverlap)))
          ELSE /\ currentChunk' = currentChunk
                                  \o (IF currentChunk # <<>> THEN PARA_SEPARATOR ELSE <<>>)
                                  \o paragraph
               /\ UNCHANGED <<dChunks, seedLens>>
    /\ pIdx' = pIdx + 1
    /\ UNCHANGED <<dpc, dText, dOptions, dChunkSize, dOverlap, paragraphs>>
    /\ UNCHANGED <<chunkVars, envVars, storeVars, ingestVars, retrVars, matchVars, leadVars, embedVars, restVars>>

\* after the loop: the last buffer is pushed unless blank; return chunks
ParagraphsDone ==
    /\ dpc = "loop"
    /\ pIdx > Len(paragraphs)
    /\ dChunks' = IF Trim(currentChunk) # <<>>
                  THEN Append(dChunks, ChunkObject(dText, currentChunk, Len(dChunks)))
                  ELSE dChunks
    /\ dpc' = "done"
    /\ UNCHANGED <<dText, dOptions, dChunkSize, dOverlap, paragraphs, pIdx, currentChunk,
                   seedLens>>
    /\ UNCHANGED <<chunkVars, envVars, storeVars, ingestVars, retrVars, matchVars, leadVars, embedVars, restVars>>

ParaNext ==
    \/ ChunkDocumentCall
    \/ ParagraphStep
    \/ ParagraphsDone

-----------------------------------------------------------------------------
(* Embedding provider, environment and stores *)

\* the vector the provider returns for a text, and the null pushed or returned
\* where an embedding failed
Vec(t) == [vec |-> t]
NULL == [null |-> TRUE]

\* what one fetch of an embedding can do: answer with the vector, answer with a
\* status that is not ok, fail in the network layer, answer ok without
\* embedding.values
FetchOutcomes == {"ok", "http_error", "network_error", "malformed"}

\* what one awaited Supabase call can do: succeed, resolve to {error}, throw
DbOutcomes == {"ok", "error", "throw"}

EnvAny ==
    /\ geminiKey \in BOOLEAN
    /\ supabaseEnv \in BOOLEAN
    /\ clientReady \in BOOLEAN

EnvSet ==
    /\ geminiKey = TRUE
    /\ supabaseEnv = TRUE
    /\ clientReady = TRUE

StoresEmpty ==
    /\ dbChunks = <<>>
    /\ dbEmbeddings = <<>>
    /\ netCalls = 0

-----------------------------------------------------------------------------
(* processDocument: extractText, splitIntoChunks, generateEmbeddings,       *)
(* saveChunksToSupabase                                                     *)

MinTextLength == 10

Rep(c, n) == [i \in 1..n |-> c]

\* texts an extraction returns: letters only, spaces only, short sentences
DocTexts ==
    {Rep(c, n) : c \in {"a", " "}, n \in (MinTextLength - 1)..MaxDocLen}
    \cup {[i \in 1..n |-> IF i % 4 = 0 THEN "." ELSE "a"] : n \in {MaxDocLen}}

MimeTypes == {"application/pdf", "docx", "text/plain"}

DocIds == {"doc1"}
DocTypes == {"brochure", "faq"}

\* extractText: the parser's answer for a PDF or DOCX, a throw for any other type
ExtractText(mimeType, parsed) ==
    IF mimeType \in {"application/pdf", "docx"} THEN parsed
    ELSE [ok |-> FALSE, error |-> "Unsupported file type"]

\* PDFailure as an exception leaving processDocument
PDRethrow(msg) == [thrown |-> TRUE, error |-> msg]

\* the failure results of processDocument
PDFailure(msg) == [success |-> FALSE, error |-> msg, chunks_created |-> 0]

\* the success result of processDocument
PDSuccess(docId, saved, total) ==
    [success |-> TRUE, document_id |-> docId, chunks_created |-> saved,
     total_chunks |-> total]

\* what generateEmbeddings (server) pushes for a text the provider answered
\* with outcome o
PushedEmbedding(t, o) == IF o = "ok" THEN Vec(t) ELSE NULL

\* NextWithEmbedding without the test that skips a chunk with no embedding
NextWithEmbeddingNoSkip(chs, embs, i) == IF i <= Len(chs) THEN i ELSE Len(chs) + 1

\* saveChunksToSupabase: the first chunk at or after i that has an embedding,
\* or Len(chs) + 1 (chunks without one are skipped)
NextWithEmbedding(chs, embs, i) ==
    LET rest == {j \in i..Len(chs) : j <= Len(embs) /\ embs[j] # NULL}
    IN IF rest = {} THEN Len(chs) + 1
       ELSE CHOOSE j \in rest : \A k \in rest : j <= k

\* CountSaved counting every insert attempted
CountAttempted(saved, o) == saved + 1

\* savedCount after an insert that settled with outcome o: only an insert
\* without error is counted
CountSaved(saved, o) == IF o = "ok" THEN saved + 1 ELSE saved

\* the row saveChunksToSupabase inserts for chunk i
ChunkRow(docId, dtype, chunk, embedding) ==
    [document_id |-> docId, content |-> chunk, embedding |-> embedding,
     document_type |-> dtype]

IngestIdle ==
    /\ pipeline = "none"
    /\ inserts = <<>>
    /\ ipc = "idle"
    /\ documentId = "none"
    /\ documentType = "none"
    /\ extracted = [none |-> TRUE]
    /\ docChunks = <<>>
    /\ embeddings = <<>>
    /\ outcomes = <<>>
    /\ idx = 0
    /\ pending = {}
    /\ settled = <<>>
    /\ order = <<>>
    /\ savedCount = 0
    /\ result = [none |-> TRUE]

\* processDocument is called: it awaits extractText
ProcessDocument(docId, dtype) ==
    /\ ipc = "idle"
    /\ documentId' = docId
    /\ documentType' = dtype
    /\ pipeline' = "processDocument"
    /\ ipc' = "extracting"
    /\ UNCHANGED <<extracted, inserts, docChunks, embeddings, outcomes, idx, pending,
                   settled, order, savedCount, result>>
    /\ UNCHANGED <<chunkVars, envVars, storeVars, retrVars, paraVars, matchVars, leadVars, embedVars, restVars>>

ProcessDocumentCall == \E d \in DocIds, ty \in DocTypes : ProcessDocument(d, ty)

\* processDocument returns r
PDReturn(r) ==
    /\ result' = r
    /\ ipc' = "done"

\* saveChunksToSupabase from chunk i on with saved chunks counted, up to its
\* next awaited insert; with none left processDocument returns its success
\* result
SaveFrom(chs, embs, i, saved) ==
    LET j == NextWithEmbedding(chs, embs, i)
    IN /\ idx' = j
       /\ savedCount' = saved
       /\ IF j > Len(chs)
          THEN PDReturn(PDSuccess(documentId, saved, Len(chs)))
          ELSE /\ ipc' = "saving"
               /\ UNCHANGED result

\* const supabase = createServiceClient(), which throws without the
\* environment, then the loop of saveChunksToSupabase
SaveChunksToSupabase(chs, embs) ==
    IF ~supabaseEnv
    THEN /\ PDReturn(PDFailure("Missing SUPABASE_URL or SUPABASE_SERVICE_ROLE_KEY"))
         /\ UNCHANGED <<idx, savedCount>>
    ELSE SaveFrom(chs, embs, 1, 0)

\* extractText settles; then the length test, splitIntoChunks and the start of
\* generateEmbeddings, up to its first fetch
ExtractSettle(mimeType, parsed) ==
    /\ ipc = "extracting"
    /\ LET ext == ExtractText(mimeType, parsed)
           chs == SplitIntoChunks(ext.text, ScaledChunkSize, ScaledChunkOverlap)
       IN IF ~ext.ok
          THEN /\ PDReturn(PDFailure(ext.error))
               /\ UNCHANGED <<netCalls, docChunks, idx, savedCount>>
          ELSE IF Len(ext.text) < MinTextLength
          THEN /\ PDReturn(PDFailure("Document contains no extractable text"))
               /\ UNCHANGED <<netCalls, docChunks, idx, savedCount>>
          ELSE IF ~geminiKey
          THEN /\ docChunks' = chs
               /\ PDReturn(PDFailure("GEMINI_API_KEY is required for embeddings"))
               /\ UNCHANGED <<netCalls, idx, savedCount>>
          ELSE IF chs # <<>>
          THEN /\ docChunks' = chs
               /\ ipc' = "embedding"
               /\ idx' = 1
               /\ netCalls' = netCalls + 1
               /\ UNCHANGED <<result, savedCount>>
          ELSE /\ docChunks' = chs
               /\ SaveChunksToSupabase(chs, <<>>)
               /\ UNCHANGED netCalls
    /\ extracted' = ExtractText(mimeType, parsed)
    /\ UNCHANGED <<pipeline, inserts, documentId, documentType, embeddings,
                   outcomes, pending, settled, order, dbChunks, dbEmbeddings>>
    /\ UNCHANGED <<chunkVars, envVars, retrVars, paraVars, matchVars, leadVars, embedVars, restVars>>

ExtractTextSettles ==
    /\ ipc = "extracting"
    /\ \E m \in MimeTypes,
          parsed \in {[ok |-> FALSE, error |-> "parse failed"]}
                     \cup {[ok |-> TRUE, text |-> t] : t \in DocTexts} :
          ExtractSettle(m, parsed)

\* generateEmbeddings (server): the fetch for chunk idx settles with outcome o;
\* the next fetch starts, or the function returns and saveChunksToSupabase runs
\* up to its first insert
EmbedSettle(o) ==
    /\ ipc = "embedding"
    /\ embeddings' = Append(embeddings, PushedEmbedding(docChunks[idx], o))
    /\ outcomes' = Append(outcomes, o)
    /\ IF idx < Len(docChunks)
       THEN /\ idx' = idx + 1
            /\ netCalls' = netCalls + 1
            /\ UNCHANGED <<ipc, result, savedCount>>
       ELSE /\ UNCHANGED netCalls
            /\ SaveChunksToSupabase(docChunks, embeddings')
    /\ UNCHANGED <<pipeline, inserts, documentId, documentType, extracted, docChunks,
                   pending, settled, order, dbChunks, dbEmbeddings>>
    /\ UNCHANGED <<chunkVars, envVars, retrVars, paraVars, matchVars, leadVars, embedVars, restVars>>

EmbedFetchSettles == \E o \in FetchOutcomes : EmbedSettle(o)

\* saveChunksToSupabase: the insert of chunk idx settles with outcome o; only a
\* successful insert is counted, and the loop goes on in every case
InsertSettle(o) ==
    /\ ipc = "saving"
    /\ dbChunks' = IF o = "ok"
                   THEN Append(dbChunks, ChunkRow(documentId, documentType,
                                                  docChunks[idx], embeddings[idx]))
                   ELSE dbChunks
    /\ SaveFrom(docChunks, embeddings, idx + 1, CountSaved(savedCount, o))
    /\ inserts' = Append(inserts, o)
    /\ UNCHANGED <<pipeline, documentId, documentType, extracted, docChunks, embeddings, outcomes,
                   pending, settled, order, dbEmbeddings, netCalls>>
    /\ UNCHANGED <<chunkVars, envVars, retrVars, paraVars, matchVars, leadVars, embedVars, restVars>>

ChunkInsertSettles == \E o \in DbOutcomes : InsertSettle(o)

-----------------------------------------------------------------------------
(* storeVectors with the client's generateEmbedding / generateEmbeddings    *)

\* the chunk lists handed to storeVectors: chunk i has id i - 1
ClientContents == {<<"a">>, <<".">>}

ClientChunkLists ==
    {[i \in 1..n |-> [id |-> i - 1, content |-> f[i]]] :
        f \in UNION {[1..n -> ClientContents] : n \in 0..0}, n \in {0}}
    \cup UNION {{[i \in 1..n |-> [id |-> i - 1, content |-> f[i]]] :
                    f \in [1..n -> ClientContents]} : n \in 1..MaxBatch}

\* generateEmbedding (client): the {embedding, error} it resolves to when the
\* provider answers its fetch with outcome o
EmbeddingResult(t, o) ==
    IF o = "ok" THEN [embedding |-> Vec(t), error |-> "none"]
    ELSE IF o = "malformed" THEN [embedding |-> NULL, error |-> "none"]
    ELSE [embedding |-> NULL, error |-> o]

\* GatherEmbeddings taking the results in the order the calls settled
GatherInSettlingOrder(res, ord) == [k \in 1..Len(ord) |-> res[k].embedding]

\* Promise.all over the calls, then embeddings.map(e => e.embedding): the
\* results by position of the text, whatever the order ord they settled in;
\* res holds the results in settling order
GatherEmbeddings(res, ord) ==
    [i \in 1..Len(ord) |->
        res[CHOOSE k \in 1..Len(ord) : ord[k] = i].embedding]

\* the rows storeVectors builds for one insert
EmbeddingRows(docId, chs, embs) ==
    [i \in 1..Len(chs) |->
        [document_id |-> docId, chunk_index |-> chs[i].id,
         content |-> chs[i].content, embedding |-> embs[i]]]

\* the results of storeVectors
SVFailure(msg) == [success |-> FALSE, error |-> msg]
SVSuccess(n) == [success |-> TRUE, count |-> n, error |-> "none"]

\* storeVectors is called: unconfigured it returns at once; otherwise
\* generateEmbeddings starts one generateEmbedding call per text
StoreVectors(docId, chs) ==
    /\ ipc = "idle"
    /\ documentId' = docId
    /\ docChunks' = chs
    /\ pipeline' = "storeVectors"
    /\ IF ~supabaseEnv \/ ~geminiKey
       THEN /\ result' = SVFailure("Services not configured")
            /\ ipc' = "done"
            /\ UNCHANGED <<pending, netCalls>>
       ELSE /\ pending' = 1..Len(chs)
            /\ netCalls' = netCalls + Len(chs)
            /\ ipc' = "gathering"
            /\ UNCHANGED result
    /\ UNCHANGED <<inserts, documentType, extracted, embeddings, outcomes, idx, settled,
                   order, savedCount, dbChunks, dbEmbeddings>>
    /\ UNCHANGED <<chunkVars, envVars, retrVars, paraVars, matchVars, leadVars, embedVars, restVars>>

StoreVectorsCall ==
    /\ ipc = "idle"
    /\ \E d \in DocIds, chs \in ClientChunkLists : StoreVectors(d, chs)

\* one generateEmbedding call settles, in any order
FetchSettle(i, o) ==
    /\ ipc = "gathering"
    /\ i \in pending
    /\ pending' = pending \ {i}
    /\ settled' = Append(settled, EmbeddingResult(docChunks[i].content, o))
    /\ order' = Append(order, i)
    /\ outcomes' = Append(outcomes, o)
    /\ UNCHANGED <<pipeline, inserts, ipc, documentId, documentType, extracted, docChunks,
                   embeddings, idx, savedCount, result, storeVars>>
    /\ UNCHANGED <<chunkVars, envVars, retrVars, paraVars, matchVars, leadVars, embedVars, restVars>>

ClientFetchSettles == \E i \in pending, o \in FetchOutcomes : FetchSettle(i, o)

\* all calls have settled: generateEmbeddings resolves, storeVectors gets the
\* client, builds the rows and awaits the insert
BatchResolve ==
    /\ ipc = "gathering"
    /\ pending = {}
    /\ embeddings' = GatherEmbeddings(settled, order)
    /\ IF ~clientReady
       THEN /\ result' = SVFailure("Supabase client not available")
            /\ ipc' = "done"
       ELSE /\ ipc' = "inserting"
            /\ UNCHANGED result
    /\ UNCHANGED <<pipeline, inserts, documentId, documentType, extracted, docChunks,
                   outcomes, idx, pending, settled, order, savedCount, storeVars>>
    /\ UNCHANGED <<chunkVars, envVars, retrVars, paraVars, matchVars, leadVars, embedVars, restVars>>

\* the insert of all rows settles with outcome o
RowsInsertSettle(o) ==
    /\ ipc = "inserting"
    /\ IF o = "ok"
       THEN /\ dbEmbeddings' = dbEmbeddings \o EmbeddingRows(documentId, docChunks, embeddings)
            /\ result' = SVSuccess(Len(docChunks))
       ELSE /\ UNCHANGED dbEmbeddings
            /\ result' = SVFailure(o)
    /\ ipc' = "done"
    /\ inserts' = Append(inserts, o)
    /\ UNCHANGED <<pipeline, documentId, documentType, extracted, docChunks, embeddings,
                   outcomes, idx, pending, settled, order, savedCount, dbChunks,
                   netCalls>>
    /\ UNCHANGED <<chunkVars, envVars, retrVars, paraVars, matchVars, leadVars, embedVars, restVars>>

RowsInsertSettles == \E o \in DbOutcomes : RowsInsertSettle(o)

IngestNext ==
    \/ ProcessDocumentCall
    \/ ExtractTextSettles
    \/ EmbedFetchSettles
    \/ ChunkInsertSettles
    \/ StoreVectorsCall
    \/ ClientFetchSettles
    \/ BatchResolve
    \/ RowsInsertSettles

-----------------------------------------------------------------------------
(* retrieveContext with generateQueryEmbedding and match_documents          *)

MaxRows == 3        \* most rows of document_chunks at retrieval time
MaxTopK == 2        \* topK ranges over 1..MaxTopK

MATCH_THRESHOLD == 50   \* match_threshold: 0.5, in hundredths

Queries == {<<"a">>, <<"a", ".">>}

StoredContents == {<<"a">>, <<".">>, <<"a", ".">>, <<"a", ".", " ">>}

Range(f) == {f[i] : i \in DOMAIN f}

\* 1 - (embedding <=> query_embedding) in hundredths, for the vectors of two
\* texts: the share of common characters stands for the cosine similarity; a
\* null embedding has none
Similarity(e, q) ==
    IF e = NULL \/ q = NULL THEN -1
    ELSE (100 * Cardinality(Range(e.vec) \cap Range(q.vec)))
            \div Cardinality(Range(e.vec) \cup Range(q.vec))

\* the sequences of row numbers match_documents may return: rows with
\* similarity > threshold, by similarity descending (ties in any order), the
\* first count of them
MatchDocuments(rows, qe, threshold, count) ==
    LET ok == {i \in 1..Len(rows) :
                  rows[i].embedding # NULL
                  /\ Similarity(rows[i].embedding, qe) > threshold}
        sim(i) == Similarity(rows[i].embedding, qe)
        n == Min(count, Cardinality(ok))
    IN {r \in [1..n -> ok] :
           /\ \A a, b \in 1..n : a < b => r[a] # r[b] /\ sim(r[a]) >= sim(r[b])
           /\ \A i \in ok \ Range(r) : \A a \in 1..n : sim(r[a]) >= sim(i)}

\* select('content, document_id').limit(topK) on document_chunks
FirstRows(rows, count) == [i \in 1..Min(count, Len(rows)) |-> i]

SEPARATOR == <<"\n", "\n", "-", "-", "-", "\n", "\n">>

\* JoinContents joining the contents last to first
RECURSIVE JoinContentsReversed(_, _)
JoinContentsReversed(rows, picked) ==
    IF picked = <<>> THEN <<>>
    ELSE IF Len(picked) = 1 THEN rows[picked[1]].content
    ELSE JoinContentsReversed(rows, Tail(picked)) \o SEPARATOR \o rows[picked[1]].content

\* data.map(d => d.content).join('\n\n---\n\n')
RECURSIVE JoinContents(_, _)
JoinContents(rows, picked) ==
    IF picked = <<>> THEN <<>>
    ELSE IF Len(picked) = 1 THEN rows[picked[1]].content
    ELSE rows[picked[1]].content \o SEPARATOR \o JoinContents(rows, Tail(picked))

\* the object returned on the two success paths
ContextResult(rows, picked, src) ==
    [kind |-> "resolved",
     value |-> [context |-> JoinContents(rows, picked), chunks |-> Len(picked),
                source |-> src]]

\* CatchResult rethrowing instead of returning
CatchRethrow(msg) == [kind |-> "rejected", error |-> msg]

\* the catch block of retrieveContext
CatchResult(msg) ==
    [kind |-> "resolved",
     value |-> [context |-> <<>>, chunks |-> 0, error |-> msg]]

RetrieveIdle ==
    /\ rpc = "idle"
    /\ query = <<>>
    /\ topK = 0
    /\ queryEmbedding = NULL
    /\ rpcData = [status |-> "none", rows |-> <<>>]
    /\ rlog = {}
    /\ rresult = [kind |-> "pending"]

\* retrieveContext is called; generateQueryEmbedding throws without the key,
\* otherwise its fetch is awaited
RetrieveContextStart(q, k) ==
    /\ rpc = "idle"
    /\ query' = q
    /\ topK' = k
    /\ IF ~geminiKey
       THEN /\ rlog' = rlog \cup {"embedding_failed"}
            /\ rresult' = CatchResult("GEMINI_API_KEY is required")
            /\ rpc' = "done"
            /\ UNCHANGED netCalls
       ELSE /\ netCalls' = netCalls + 1
            /\ rpc' = "embedding"
            /\ UNCHANGED <<rlog, rresult>>
    /\ UNCHANGED <<queryEmbedding, rpcData, dbChunks, dbEmbeddings>>
    /\ UNCHANGED <<chunkVars, envVars, ingestVars, paraVars, matchVars, leadVars, embedVars>>

\* retrieveContext called on its own
RetrieveContext(q, k) == RetrieveContextStart(q, k) /\ UNCHANGED restVars

RetrieveContextCall ==
    /\ rpc = "idle"
    /\ \E q \in Queries, k \in 1..MaxTopK : RetrieveContext(q, k)

\* the fetch of generateQueryEmbedding settles with outcome o; with the vector,
\* createServiceClient runs (it throws without the environment) and the
\* match_documents call is awaited
QueryEmbedSettle(o) ==
    /\ rpc = "embedding"
    /\ IF o # "ok"
       THEN /\ rlog' = rlog \cup {"embedding_failed"}
            /\ rresult' = CatchResult(o)
            /\ rpc' = "done"
            /\ UNCHANGED queryEmbedding
       ELSE /\ queryEmbedding' = Vec(query)
            /\ IF ~supabaseEnv
               THEN /\ rlog' = rlog \cup {"store_failed"}
                    /\ rresult' = CatchResult("Missing SUPABASE_URL or SUPABASE_SERVICE_ROLE_KEY")
                    /\ rpc' = "done"
               ELSE /\ rpc' = "rpc"
                    /\ UNCHANGED <<rlog, rresult>>
    /\ UNCHANGED <<query, topK, rpcData, storeVars>>
    /\ UNCHANGED <<chunkVars, envVars, ingestVars, paraVars, matchVars, leadVars, embedVars, restVars>>

QueryFetchSettles == \E o \in FetchOutcomes : QueryEmbedSettle(o)

\* the match_documents call settles: with rows (picked), with no data, with an
\* error result (the table query is awaited next) or by throwing
RpcSettle(o, picked) ==
    /\ rpc = "rpc"
    /\ rpcData' = [status |-> o,
                   rows |-> IF o = "ok"
                            THEN [k \in 1..Len(picked) |-> dbChunks[picked[k]].content]
                            ELSE <<>>]
    /\ IF o = "ok"
       THEN /\ rresult' = ContextResult(dbChunks, picked, "vector_search")
            /\ rpc' = "done"
            /\ UNCHANGED rlog
       ELSE IF o = "no_data"
       THEN /\ rresult' = ContextResult(dbChunks, <<>>, "vector_search")
            /\ rpc' = "done"
            /\ UNCHANGED rlog
       ELSE IF o = "error"
       THEN /\ rlog' = rlog \cup {"store_failed", "fallback_query"}
            /\ rpc' = "fallback"
            /\ UNCHANGED rresult
       ELSE /\ rlog' = rlog \cup {"store_failed"}
            /\ rresult' = CatchResult("rpc threw")
            /\ rpc' = "done"
    /\ UNCHANGED <<query, topK, queryEmbedding, storeVars>>
    /\ UNCHANGED <<chunkVars, envVars, ingestVars, paraVars, matchVars, leadVars, embedVars, restVars>>

RpcSettles ==
    /\ rpc = "rpc"
    /\ \E o \in {"ok", "no_data", "error", "throw"},
          picked \in MatchDocuments(dbChunks, queryEmbedding, MATCH_THRESHOLD, topK) :
          RpcSettle(o, picked)

\* the table query settles: with rows, with no data, with an error result
\* (thrown on) or by throwing
FallbackSettle(o) ==
    /\ rpc = "fallback"
    /\ IF o = "ok"
       THEN /\ rresult' = ContextResult(dbChunks, FirstRows(dbChunks, topK), "fallback")
            /\ UNCHANGED rlog
       ELSE IF o = "no_data"
       THEN /\ rresult' = ContextResult(dbChunks, <<>>, "fallback")
            /\ UNCHANGED rlog
       ELSE /\ rlog' = rlog \cup {"fallback_failed"}
            /\ rresult' = CatchResult(o)
    /\ rpc' = "done"
    /\ UNCHANGED <<query, topK, queryEmbedding, rpcData, storeVars>>
    /\ UNCHANGED <<chunkVars, envVars, ingestVars, paraVars, matchVars, leadVars, embedVars, restVars>>

FallbackSettles == \E o \in {"ok", "no_data", "error", "throw"} : FallbackSettle(o)

RetrieveNext ==
    \/ RetrieveContextCall
    \/ QueryFetchSettles
    \/ RpcSettles
    \/ FallbackSettles

\* document_chunks as earlier ingestion runs left it
StoredRows ==
    UNION {{[i \in 1..n |-> ChunkRow("doc1", "brochure", f[i], Vec(f[i]))] :
               f \in [1..n -> StoredContents]} : n \in 0..MaxRows}

-----------------------------------------------------------------------------
(* The embedding functions called on their own: generateQueryEmbedding,       *)
(* generateEmbeddings (server), generateEmbedding and generateEmbeddings      *)
(* (client)                                                                   *)

\* Unconfigured never seeing the key as missing
UnconfiguredIgnored(key) == FALSE

\* if (!GEMINI_API_KEY) / if (!isConfigured('gemini'))
Unconfigured(key) == ~key

Rejected(msg) == [kind |-> "rejected", error |-> msg]
Resolved(v) == [kind |-> "resolved", value |-> v]

\* the lists of texts handed to a batch function
TextLists == UNION {[1..n -> ClientContents] : n \in 0..MaxBatch}

\* where in done the fetch for text i is
SettledOutcome(done, i) == (CHOOSE k \in 1..Len(done) : done[k].i = i)

EmbedIdle ==
    /\ eFn = "none"
    /\ epc = "idle"
    /\ eTexts = <<>>
    /\ ePending = {}
    /\ eSettled = <<>>
    /\ eResult = [kind |-> "pending"]

\* generateQueryEmbedding(query), up to its fetch
GenerateQueryEmbedding(q) ==
    /\ eFn' = "generateQueryEmbedding"
    /\ eTexts' = <<q>>
    /\ IF Unconfigured(geminiKey)
       THEN /\ eResult' = Rejected("GEMINI_API_KEY is required")
            /\ epc' = "done"
            /\ UNCHANGED <<ePending, netCalls>>
       ELSE /\ ePending' = {1}
            /\ netCalls' = netCalls + 1
            /\ epc' = "fetching"
            /\ UNCHANGED eResult
    /\ UNCHANGED <<eSettled, dbChunks, dbEmbeddings>>
    /\ UNCHANGED <<chunkVars, paraVars, envVars, ingestVars, retrVars, matchVars, leadVars, restVars>>

GenerateQueryEmbeddingCall ==
    /\ epc = "idle"
    /\ \E q \in Queries : GenerateQueryEmbedding(q)

\* generateEmbeddings(chunks) of the server, up to its first fetch
ServerGenerateEmbeddings(texts) ==
    /\ eFn' = "server.generateEmbeddings"
    /\ eTexts' = texts
    /\ IF Unconfigured(geminiKey)
       THEN /\ eResult' = Rejected("GEMINI_API_KEY is required for embeddings")
            /\ epc' = "done"
            /\ UNCHANGED <<ePending, netCalls>>
       ELSE IF texts = <<>>
       THEN /\ eResult' = Resolved(<<>>)
            /\ epc' = "done"
            /\ UNCHANGED <<ePending, netCalls>>
       ELSE /\ ePending' = {1}
            /\ netCalls' = netCalls + 1
            /\ epc' = "fetching"
            /\ UNCHANGED eResult
    /\ UNCHANGED <<eSettled, dbChunks, dbEmbeddings>>
    /\ UNCHANGED <<chunkVars, paraVars, envVars, ingestVars, retrVars, matchVars, leadVars, restVars>>

ServerGenerateEmbeddingsCall ==
    /\ epc = "idle"
    /\ \E texts \in TextLists : ServerGenerateEmbeddings(texts)

\* generateEmbedding(text) of the client, up to its fetch
GenerateEmbedding(t) ==
    /\ eFn' = "generateEmbedding"
    /\ eTexts' = <<t>>
    /\ IF Unconfigured(geminiKey)
       THEN /\ eResult' = Resolved([embedding |-> NULL, error |-> "API key not configured"])
            /\ epc' = "done"
            /\ UNCHANGED <<ePending, netCalls>>
       ELSE /\ ePending' = {1}
            /\ netCalls' = netCalls + 1
            /\ epc' = "fetching"
            /\ UNCHANGED eResult
    /\ UNCHANGED <<eSettled, dbChunks, dbEmbeddings>>
    /\ UNCHANGED <<chunkVars, paraVars, envVars, ingestVars, retrVars, matchVars, leadVars, restVars>>

GenerateEmbeddingCall ==
    /\ epc = "idle"
    /\ \E t \in ClientContents : GenerateEmbedding(t)

\* generateEmbeddings(texts) of the client: one generateEmbedding call per
\* text, all started before any settles
ClientGenerateEmbeddings(texts) ==
    /\ eFn' = "client.generateEmbeddings"
    /\ eTexts' = texts
    /\ IF Unconfigured(geminiKey)
       THEN /\ eResult' = Resolved([embeddings |-> <<>>, error |-> "API key not configured"])
            /\ epc' = "done"
            /\ UNCHANGED <<ePending, netCalls>>
       ELSE IF texts = <<>>
       THEN /\ eResult' = Resolved([embeddings |-> <<>>, error |-> "none"])
            /\ epc' = "done"
            /\ UNCHANGED <<ePending, netCalls>>
       ELSE /\ ePending' = 1..Len(texts)
            /\ netCalls' = netCalls + Len(texts)
            /\ epc' = "fetching"
            /\ UNCHANGED eResult
    /\ UNCHANGED <<eSettled, dbChunks, dbEmbeddings>>
    /\ UNCHANGED <<chunkVars, paraVars, envVars, ingestVars, retrVars, matchVars, leadVars, restVars>>

ClientGenerateEmbeddingsCall ==
    /\ epc = "idle"
    /\ \E texts \in TextLists : ClientGenerateEmbeddings(texts)

\* the fetch for text i settles with outcome o
FetchResponse(i, o) ==
    /\ eSettled' = Append(eSettled, [i |-> i, o |-> o])
    /\ IF eFn = "generateQueryEmbedding"
       THEN /\ eResult' = IF o = "ok" THEN Resolved(Vec(eTexts[1])) ELSE Rejected(o)
            /\ ePending' = {}
            /\ epc' = "done"
            /\ UNCHANGED netCalls
       ELSE IF eFn = "generateEmbedding"
       THEN /\ eResult' = Resolved(EmbeddingResult(eTexts[1], o))
            /\ ePending' = {}
            /\ epc' = "done"
            /\ UNCHANGED netCalls
       ELSE IF eFn = "server.generateEmbeddings"
       THEN IF i < Len(eTexts)
            THEN /\ ePending' = {i + 1}
                 /\ netCalls' = netCalls + 1
                 /\ UNCHANGED <<epc, eResult>>
            ELSE /\ ePending' = {}
                 /\ epc' = "done"
                 /\ eResult' = Resolved([k \in 1..Len(eTexts) |->
                                    PushedEmbedding(eTexts[k], eSettled'[k].o)])
                 /\ UNCHANGED netCalls
       ELSE /\ ePending' = ePending \ {i}
            /\ UNCHANGED netCalls
            /\ IF ePending' = {}
               THEN /\ epc' = "done"
                    /\ eResult' = Resolved(
                          [embeddings |-> [k \in 1..Len(eTexts) |->
                              EmbeddingResult(eTexts[k],
                                  eSettled'[SettledOutcome(eSettled', k)].o).embedding],
                           error |-> "none"])
               ELSE UNCHANGED <<epc, eResult>>
    /\ UNCHANGED <<eFn, eTexts, dbChunks, dbEmbeddings>>
    /\ UNCHANGED <<chunkVars, paraVars, envVars, ingestVars, retrVars, matchVars, leadVars, restVars>>

FetchResponses ==
    /\ epc = "fetching"
    /\ \E i \in ePending, o \in FetchOutcomes : FetchResponse(i, o)

EmbedNext ==
    \/ GenerateQueryEmbeddingCall
    \/ ServerGenerateEmbeddingsCall
    \/ GenerateEmbeddingCall
    \/ ClientGenerateEmbeddingsCall
    \/ FetchResponses

-----------------------------------------------------------------------------
(* match_documents and match_embeddings *)

MaxTableRows == 3   \* most rows of the table searched
MaxMatchCount == 2  \* match_count ranges over 0..MaxMatchCount

TableDocIds == {"doc1", "doc2"}
TableContents == {<<"a">>, <<"a", ".">>, <<"a", ".", " ">>}
Thresholds == {0, 50, 66}   \* match_threshold in hundredths

\* filter_document_id IS NULL
NoFilter == "none"

\* the rows a table may hold: any document, any content, embedding set or null
TableRows ==
    {[document_id |-> d, content |-> c, embedding |-> e] :
        d \in TableDocIds, c \in TableContents, e \in {NULL}}
    \cup {[document_id |-> d, content |-> c, embedding |-> Vec(c)] :
            d \in TableDocIds, c \in TableContents}

Tables == UNION {[1..n -> TableRows] : n \in 0..MaxTableRows}

\* the row of the result table for row i of the searched table
MatchRow(rows, qe, i) ==
    [id |-> i, document_id |-> rows[i].document_id, content |-> rows[i].content,
     similarity |-> Similarity(rows[i].embedding, qe)]

\* MatchEmbeddings admitting similarity = match_threshold
MatchEmbeddingsAtLeast(rows, qe, threshold, count, filter) ==
    LET ok == {i \in 1..Len(rows) :
                  /\ rows[i].embedding # NULL
                  /\ Similarity(rows[i].embedding, qe) >= threshold
                  /\ (filter = NoFilter \/ rows[i].document_id = filter)}
        sim(i) == Similarity(rows[i].embedding, qe)
        n == Min(count, Cardinality(ok))
    IN {r \in [1..n -> ok] :
           /\ \A a, b \in 1..n : a < b => r[a] # r[b] /\ sim(r[a]) >= sim(r[b])
           /\ \A i \in ok \ Range(r) : \A a \in 1..n : sim(r[a]) >= sim(i)}

\* the sequences of row numbers match_embeddings may return: rows with
\* similarity > match_threshold, of the filter document when one is given, by
\* distance ascending (ties in any order), the first match_count of them
MatchEmbeddings(rows, qe, threshold, count, filter) ==
    LET ok == {i \in 1..Len(rows) :
                  /\ rows[i].embedding # NULL
                  /\ Similarity(rows[i].embedding, qe) > threshold
                  /\ (filter = NoFilter \/ rows[i].document_id = filter)}
        sim(i) == Similarity(rows[i].embedding, qe)
        n == Min(count, Cardinality(ok))
    IN {r \in [1..n -> ok] :
           /\ \A a, b \in 1..n : a < b => r[a] # r[b] /\ sim(r[a]) >= sim(r[b])
           /\ \A i \in ok \ Range(r) : \A a \in 1..n : sim(r[a]) >= sim(i)}

MatchIdle ==
    /\ mFn = "none"
    /\ mArgs = [query_embedding |-> NULL, match_threshold |-> 0, match_count |-> 0,
                filter_document_id |-> NoFilter]
    /\ mResult = <<>>

\* SELECT match_documents(query_embedding, match_threshold, match_count)
MatchDocumentsRpc ==
    /\ mFn = "none"
    /\ \E q \in Queries, threshold \in Thresholds, count \in 0..MaxMatchCount :
          \E r \in MatchDocuments(dbChunks, Vec(q), threshold, count) :
             /\ mFn' = "match_documents"
             /\ mArgs' = [query_embedding |-> Vec(q), match_threshold |-> threshold,
                          match_count |-> count, filter_document_id |-> NoFilter]
             /\ mResult' = [k \in 1..Len(r) |-> MatchRow(dbChunks, Vec(q), r[k])]
    /\ UNCHANGED <<chunkVars, paraVars, envVars, storeVars, ingestVars, retrVars, leadVars, embedVars, restVars>>

\* SELECT match_embeddings(query_embedding, match_threshold, match_count,
\*                         filter_document_id)
MatchEmbeddingsRpc ==
    /\ mFn = "none"
    /\ \E q \in Queries, threshold \in Thresholds, count \in 0..MaxMatchCount,
          filter \in TableDocIds \cup {NoFilter} :
          \E r \in MatchEmbeddings(dbEmbeddings, Vec(q), threshold, count, filter) :
             /\ mFn' = "match_embeddings"
             /\ mArgs' = [query_embedding |-> Vec(q), match_threshold |-> threshold,
                          match_count |-> count, filter_document_id |-> filter]
             /\ mResult' = [k \in 1..Len(r) |-> MatchRow(dbEmbeddings, Vec(q), r[k])]
    /\ UNCHANGED <<chunkVars, paraVars, envVars, storeVars, ingestVars, retrVars, leadVars, embedVars, restVars>>

MatchNext ==
    \/ MatchDocumentsRpc
    \/ MatchEmbeddingsRpc

-----------------------------------------------------------------------------
(* createLead with validatePayload *)

\* JavaScript values of a payload field: the type and, as text, the value
Undefined == [t |-> "undefined", v |-> <<>>]
Null == [t |-> "null", v |-> <<>>]
Str(s) == [t |-> "string", v |-> s]
Num(s) == [t |-> "number", v |-> s]
Bool(s) == [t |-> "boolean", v |-> s]

\* !!value
Truthy(val) ==
    IF val.t \in {"undefined", "null"} THEN FALSE
    ELSE IF val.t = "string" THEN val.v # <<>>
    ELSE IF val.t = "number" THEN val.v # <<"0">>
    ELSE val.v = <<"t">>

\* the strings new Date parses
DateStrings == {<<"2", "0", "2", "5">>}

\* !isNaN(new Date(value).getTime()) for a value that is not undefined or null
DateIsValid(val) == IF val.t = "string" THEN val.v \in DateStrings ELSE TRUE

\* the payloads createLead is called with: no object, or an object with any of
\* the six fields
NoObject(kind) ==
    [kind |-> kind, name |-> Undefined, phone |-> Undefined, budget |-> Undefined,
     requirement |-> Undefined, site_visit_requested |-> Undefined,
     site_visit_datetime |-> Undefined]

NameValues == {Undefined, Null, Str(<<>>), Str(<<" ">>), Str(<<"J">>), Str(<<" ", "J">>),
               Num(<<"5">>)}
PhoneValues == {Undefined, Str(<<" ">>), Str(<<"1">>), Num(<<"5">>)}
BudgetValues == {Undefined, Null, Str(<<" ">>), Str(<<"1", "M">>), Num(<<"5">>)}
RequirementValues == {Undefined, Null, Str(<<"3">>), Bool(<<"t">>)}
VisitRequestedValues == {Undefined, Null, Bool(<<"t">>), Bool(<<"f">>), Str(<<"t">>)}
VisitDatetimeValues == {Undefined, Null, Str(<<>>), Str(<<"x">>), Str(<<"2", "0", "2", "5">>),
                        Num(<<"5">>)}

Payloads ==
    {NoObject("undefined"), NoObject("null"), NoObject("string")}
    \cup [kind : {"object"}, name : NameValues, phone : PhoneValues,
          budget : BudgetValues, requirement : RequirementValues,
          site_visit_requested : VisitRequestedValues,
          site_visit_datetime : VisitDatetimeValues]

\* ValidatePayload accepting every payload
ValidatePayloadAcceptAll(pl) == [valid |-> TRUE, error |-> "none"]

\* validatePayload(payload)
ValidatePayload(pl) ==
    IF pl.kind # "object"
    THEN [valid |-> FALSE, error |-> "Invalid payload: must be an object"]
    ELSE IF ~Truthy(pl.name) \/ pl.name.t # "string" \/ Trim(pl.name.v) = <<>>
    THEN [valid |-> FALSE, error |-> "Name is required and must be a non-empty string"]
    ELSE IF ~Truthy(pl.phone) \/ pl.phone.t # "string" \/ Trim(pl.phone.v) = <<>>
    THEN [valid |-> FALSE, error |-> "Phone is required and must be a non-empty string"]
    ELSE IF pl.budget.t \notin {"undefined", "null", "string"}
    THEN [valid |-> FALSE, error |-> "Budget must be a string if provided"]
    ELSE IF pl.requirement.t \notin {"undefined", "null", "string"}
    THEN [valid |-> FALSE, error |-> "Requirement must be a string if provided"]
    ELSE IF pl.site_visit_requested.t \notin {"undefined", "boolean"}
    THEN [valid |-> FALSE, error |-> "site_visit_requested must be a boolean if provided"]
    ELSE IF pl.site_visit_datetime.t \notin {"undefined", "null"}
            /\ ~DateIsValid(pl.site_visit_datetime)
    THEN [valid |-> FALSE, error |-> "site_visit_datetime must be a valid ISO date string"]
    ELSE [valid |-> TRUE, error |-> "none"]

\* value?.trim() || null
TrimOrNull(val) ==
    IF val.t = "string" /\ Trim(val.v) # <<>> THEN Str(Trim(val.v)) ELSE Null

\* const leadData
LeadData(pl) ==
    [name |-> Str(Trim(pl.name.v)),
     phone |-> Str(Trim(pl.phone.v)),
     budget |-> TrimOrNull(pl.budget),
     requirement |-> TrimOrNull(pl.requirement),
     source |-> "website_chat",
     site_visit_requested |->
        IF pl.site_visit_requested.t \in {"undefined", "null"} THEN Bool(<<"f">>)
        ELSE pl.site_visit_requested,
     site_visit_datetime |->
        IF Truthy(pl.site_visit_datetime) THEN pl.site_visit_datetime ELSE Null]

\* the results of createLead
LeadFailure(msg) == [success |-> FALSE, error |-> msg]
LeadSuccess(id) == [success |-> TRUE, lead_id |-> id]

LeadIdle ==
    /\ lpc = "idle"
    /\ payload = NoObject("undefined")
    /\ dbLeads = <<>>
    /\ leadInsertCalls = 0
    /\ lresult = [none |-> TRUE]

\* createLead(payload), up to the awaited insert
CreateLead(pl) ==
    /\ payload' = pl
    /\ LET validation == ValidatePayload(pl)
       IN IF ~validation.valid
          THEN /\ lresult' = LeadFailure(validation.error)
               /\ lpc' = "done"
               /\ UNCHANGED leadInsertCalls
          ELSE IF ~supabaseEnv
          THEN /\ lresult' = LeadFailure("Missing required environment variables")
               /\ lpc' = "done"
               /\ UNCHANGED leadInsertCalls
          ELSE /\ leadInsertCalls' = leadInsertCalls + 1
               /\ lpc' = "inserting"
               /\ UNCHANGED lresult
    /\ UNCHANGED dbLeads
    /\ UNCHANGED <<chunkVars, paraVars, envVars, storeVars, ingestVars, retrVars, matchVars,
                   embedVars, restVars>>

CreateLeadCall ==
    /\ lpc = "idle"
    /\ \E pl \in Payloads : CreateLead(pl)

\* the insert into leads settles with outcome o
LeadInsertSettle(o) ==
    /\ IF o = "ok"
       THEN /\ dbLeads' = Append(dbLeads, LeadData(payload))
            /\ lresult' = LeadSuccess(Len(dbLeads) + 1)
       ELSE IF o = "error"
       THEN /\ lresult' = LeadFailure("Database insert failed")
            /\ UNCHANGED dbLeads
       ELSE /\ lresult' = LeadFailure("insert threw")
            /\ UNCHANGED dbLeads
    /\ lpc' = "done"
    /\ UNCHANGED <<payload, leadInsertCalls>>
    /\ UNCHANGED <<chunkVars, paraVars, envVars, storeVars, ingestVars, retrVars, matchVars,
                   embedVars, restVars>>

LeadInsertSettles ==
    /\ lpc = "inserting"
    /\ \E o \in DbOutcomes : LeadInsertSettle(o)

LeadNext ==
    \/ CreateLeadCall
    \/ LeadInsertSettles

-----------------------------------------------------------------------------
(* GET /api/rag (the route handler) and getSimpleContext (lib/rag.js) *)

TOP_K == 5

SIMPLE_LIMIT == 5

\* req.query.query: absent or empty, blank, or a query
RouteQueries == {<<>>, <<" ">>} \cup Queries

SIMPLE_SEPARATOR == <<"\n", "\n">>

\* the order-preserving selections of the rows of a table
SubSequences(rows) ==
    {sel \in SeqsUpTo(1..Len(rows), Len(rows)) :
        \A i \in 1..(Len(sel) - 1) : sel[i] < sel[i + 1]}

\* order('created_at', { ascending: false }).limit(count)
LatestRows(rows, count) == [i \in 1..Min(count, Len(rows)) |-> Len(rows) + 1 - i]

\* the object getSimpleContext returns for the rows picked
SimpleResult(rows, picked) ==
    [kind |-> "resolved",
     value |-> [context |-> JoinBy([k \in 1..Len(picked) |-> rows[picked[k]].content],
                                   SIMPLE_SEPARATOR),
                chunks |-> Len(picked)]]

\* res.json of the handler: context || '', chunks || 0, source || 'unknown'
RagJson(value) ==
    [status |-> 200,
     body |-> [context |-> value.context,
               chunks |-> value.chunks,
               source |-> IF "source" \in DOMAIN value THEN value.source ELSE "unknown"]]

RagBadRequest ==
    [status |-> 400, body |-> [context |-> <<>>, error |-> "Query parameter is required"]]

RagIdle ==
    /\ hpc = "idle"
    /\ hresponse = [status |-> 0]
    /\ spc = "idle"
    /\ sresult = [kind |-> "pending"]
    /\ simpleCalls = 0

\* getSimpleContext is called: createServiceClient throws without the
\* environment (caught), otherwise the text search is awaited
GetSimpleContextStart ==
    /\ spc = "idle"
    /\ IF ~supabaseEnv
       THEN /\ sresult' = SimpleResult(dbChunks, <<>>)
            /\ spc' = "done"
       ELSE /\ spc' = "search"
            /\ UNCHANGED sresult

\* getSimpleContext called on its own
GetSimpleContextCall ==
    /\ spc = "idle"
    /\ GetSimpleContextStart
    /\ UNCHANGED <<hpc, hresponse, simpleCalls>>
    /\ UNCHANGED <<coreVars, notRagVars>>

\* the text search settles: with the rows it matched (picked), with no data,
\* with an error result (the latest chunks are queried next) or by throwing
SimpleSearchSettle(o, picked) ==
    /\ spc = "search"
    /\ IF o = "ok"
       THEN /\ sresult' = SimpleResult(dbChunks, picked)
            /\ spc' = "done"
       ELSE IF o = "error"
       THEN /\ spc' = "latest"
            /\ UNCHANGED sresult
       ELSE /\ sresult' = SimpleResult(dbChunks, <<>>)
            /\ spc' = "done"
    /\ UNCHANGED <<hpc, hresponse, simpleCalls>>
    /\ UNCHANGED <<coreVars, notRagVars>>

SimpleSearchSettles ==
    /\ spc = "search"
    /\ \E o \in {"ok", "no_data", "error", "throw"} :
          \E picked \in {sel \in SubSequences(dbChunks) : Len(sel) <= SIMPLE_LIMIT} :
              SimpleSearchSettle(o, picked)

\* the query for the latest chunks settles; its error is not looked at
SimpleLatestSettle(o) ==
    /\ spc = "latest"
    /\ sresult' = IF o = "ok"
                  THEN SimpleResult(dbChunks, LatestRows(dbChunks, SIMPLE_LIMIT))
                  ELSE SimpleResult(dbChunks, <<>>)
    /\ spc' = "done"
    /\ UNCHANGED <<hpc, hresponse, simpleCalls>>
    /\ UNCHANGED <<coreVars, notRagVars>>

SimpleLatestSettles ==
    /\ spc = "latest"
    /\ \E o \in {"ok", "no_data", "error", "throw"} : SimpleLatestSettle(o)

\* the handler runs up to its first await: 400 for a missing or blank query,
\* otherwise retrieveContext(query) is called with the default topK
RagGet(q) ==
    /\ hpc = "idle"
    /\ rpc = "idle"
    /\ IF q = <<>> \/ Trim(q) = <<>>
       THEN /\ hresponse' = RagBadRequest
            /\ hpc' = "done"
            /\ UNCHANGED coreVars
       ELSE /\ RetrieveContextStart(q, TOP_K)
            /\ hpc' = "retrieving"
            /\ UNCHANGED hresponse
    /\ UNCHANGED <<spc, sresult, simpleCalls>>
    /\ UNCHANGED notRagVars

RagGetCall ==
    /\ hpc = "idle"
    /\ rpc = "idle"
    /\ \E q \in RouteQueries : RagGet(q)

\* the promise the handler awaits has settled: a rejected retrieveContext
\* takes the inner catch and getSimpleContext is called, a resolved one (and a
\* resolved getSimpleContext) is answered with res.json
RagAwaitSettles ==
    /\ hpc \in {"retrieving", "simple"}
    /\ IF hpc = "retrieving"
       THEN /\ rpc = "done"
            /\ IF rresult.kind = "rejected"
               THEN /\ GetSimpleContextStart
                    /\ simpleCalls' = simpleCalls + 1
                    /\ hpc' = "simple"
                    /\ UNCHANGED hresponse
               ELSE /\ hresponse' = RagJson(rresult.value)
                    /\ hpc' = "done"
                    /\ UNCHANGED <<spc, sresult, simpleCalls>>
       ELSE /\ spc = "done"
            /\ hresponse' = RagJson(sresult.value)
            /\ hpc' = "done"
            /\ UNCHANGED <<spc, sresult, simpleCalls>>
    /\ UNCHANGED <<coreVars, notRagVars>>

RagNext ==
    \/ RagGetCall
    \/ QueryFetchSettles
    \/ RpcSettles
    \/ FallbackSettles
    \/ RagAwaitSettles
    \/ GetSimpleContextCall
    \/ SimpleSearchSettles
    \/ SimpleLatestSettles

-----------------------------------------------------------------------------
(* Two processDocument runs (server) over one document_chunks table; each  *)
(* run keeps its arguments and locals in its own record                     *)

Runs == {1, 2}

RunDocIds == {"doc1", "doc2"}

\* texts the extraction of a run returns: 2 chunks, 1 chunk, no chunk, too short
RunTexts ==
    {Rep("a", 5) \o Rep(" ", 5), <<"a">> \o Rep(" ", 8) \o <<"a">>,
     Rep(" ", MinTextLength), Rep("a", MinTextLength - 1)}

RunMimeTypes == {"application/pdf", "text/plain"}

RunIdle ==
    [pc |-> "idle", documentId |-> "none", documentType |-> "none", chunks |-> <<>>,
     embeddings |-> <<>>, idx |-> 0, savedCount |-> 0, result |-> [none |-> TRUE]]

RunsIdle ==
    /\ runs = [r \in Runs |-> RunIdle]
    /\ rowRun = <<>>

\* the run returns res
RunReturn(run, res) == [run EXCEPT !.result = res, !.pc = "done"]

\* saveChunksToSupabase of a run from chunk i on with saved chunks counted, up
\* to its next awaited insert or to the return of processDocument
RunSaveFrom(run, i, saved) ==
    LET j == NextWithEmbedding(run.chunks, run.embeddings, i)
        at == [run EXCEPT !.idx = j, !.savedCount = saved]
    IN IF j > Len(run.chunks)
       THEN RunReturn(at, PDSuccess(run.documentId, saved, Len(run.chunks)))
       ELSE [at EXCEPT !.pc = "saving"]

\* createServiceClient, which throws without the environment, then the loop
RunSaveStart(run) ==
    IF ~supabaseEnv
    THEN RunReturn(run, PDFailure("Missing SUPABASE_URL or SUPABASE_SERVICE_ROLE_KEY"))
    ELSE RunSaveFrom(run, 1, 0)

\* the run after its extractText settled: the length test, splitIntoChunks
\* and generateEmbeddings up to its first fetch
RunAfterExtract(run, ext) ==
    IF ~ext.ok THEN RunReturn(run, PDFailure(ext.error))
    ELSE IF Len(ext.text) < MinTextLength
    THEN RunReturn(run, PDFailure("Document contains no extractable text"))
    ELSE LET chs == SplitIntoChunks(ext.text, ScaledChunkSize, ScaledChunkOverlap)
             split == [run EXCEPT !.chunks = chs]
         IN IF ~geminiKey
            THEN RunReturn(split, PDFailure("GEMINI_API_KEY is required for embeddings"))
            ELSE IF chs # <<>>
            THEN [split EXCEPT !.pc = "embedding", !.idx = 1]
            ELSE RunSaveStart(split)

\* the run after the fetch for chunk idx settled with outcome o
RunAfterEmbed(run, o) ==
    LET pushed == [run EXCEPT
                      !.embeddings = Append(@, PushedEmbedding(run.chunks[run.idx], o))]
    IN IF run.idx < Len(run.chunks)
       THEN [pushed EXCEPT !.idx = run.idx + 1]
       ELSE RunSaveStart(pushed)

\* InsertedRow taking the document of the first run, as if the arguments were
\* kept in one place for all runs
InsertedRowShared(rs, r) ==
    ChunkRow(rs[1].documentId, rs[1].documentType, rs[r].chunks[rs[r].idx],
             rs[r].embeddings[rs[r].idx])

\* the object run r passes to insert
InsertedRow(rs, r) ==
    ChunkRow(rs[r].documentId, rs[r].documentType, rs[r].chunks[rs[r].idx],
             rs[r].embeddings[rs[r].idx])

\* StoreInsert replacing the rows of the same document
StoreUpsert(rows, row) ==
    Append(SelectSeq(rows, LAMBDA old : old.document_id # row.document_id), row)

\* from('document_chunks').insert(row)
StoreInsert(rows, row) == Append(rows, row)

\* processDocument is called for run r: it awaits extractText
RunProcessDocument(r, d, ty) ==
    /\ runs[r].pc = "idle"
    /\ runs' = [runs EXCEPT ![r] = [@ EXCEPT !.pc = "extracting", !.documentId = d,
                                             !.documentType = ty]]
    /\ UNCHANGED rowRun
    /\ UNCHANGED <<coreVars, notRunVars>>

RunProcessDocumentCall ==
    \E r \in Runs :
        /\ runs[r].pc = "idle"
        /\ \E d \in RunDocIds, ty \in DocTypes : RunProcessDocument(r, d, ty)

RunExtractSettle(r, mimeType, parsed) ==
    /\ runs[r].pc = "extracting"
    /\ LET after == RunAfterExtract(runs[r], ExtractText(mimeType, parsed))
       IN /\ runs' = [runs EXCEPT ![r] = after]
          /\ netCalls' = IF after.pc = "embedding" THEN netCalls + 1 ELSE netCalls
    /\ UNCHANGED <<rowRun, dbChunks, dbEmbeddings>>
    /\ UNCHANGED <<chunkVars, paraVars, envVars, ingestVars, retrVars, matchVars, leadVars,
                   embedVars, notRunVars>>

RunExtractSettles ==
    \E r \in Runs :
        /\ runs[r].pc = "extracting"
        /\ \E m \in RunMimeTypes,
              parsed \in {[ok |-> FALSE, error |-> "parse failed"]}
                         \cup {[ok |-> TRUE, text |-> t] : t \in RunTexts} :
              RunExtractSettle(r, m, parsed)

RunEmbedSettle(r, o) ==
    /\ runs[r].pc = "embedding"
    /\ LET after == RunAfterEmbed(runs[r], o)
       IN /\ runs' = [runs EXCEPT ![r] = after]
          /\ netCalls' = IF after.pc = "embedding" THEN netCalls + 1 ELSE netCalls
    /\ UNCHANGED <<rowRun, dbChunks, dbEmbeddings>>
    /\ UNCHANGED <<chunkVars, paraVars, envVars, ingestVars, retrVars, matchVars, leadVars,
                   embedVars, notRunVars>>

RunEmbedSettles ==
    \E r \in Runs :
        /\ runs[r].pc = "embedding"
        /\ \E o \in FetchOutcomes : RunEmbedSettle(r, o)

\* the insert of chunk idx of run r settles with outcome o
RunInsertSettle(r, o) ==
    /\ runs[r].pc = "saving"
    /\ IF o = "ok"
       THEN /\ dbChunks' = StoreInsert(dbChunks, InsertedRow(runs, r))
            /\ rowRun' = Append(rowRun, r)
       ELSE UNCHANGED <<dbChunks, rowRun>>
    /\ runs' = [runs EXCEPT ![r] = RunSaveFrom(@, @.idx + 1,
                                               IF o = "ok" THEN @.savedCount + 1
                                               ELSE @.savedCount)]
    /\ UNCHANGED <<dbEmbeddings, netCalls>>
    /\ UNCHANGED <<chunkVars, paraVars, envVars, ingestVars, retrVars, matchVars, leadVars,
                   embedVars, notRunVars>>

RunInsertSettles ==
    \E r \in Runs :
        /\ runs[r].pc = "saving"
        /\ \E o \in DbOutcomes : RunInsertSettle(r, o)

RunsNext ==
    \/ RunProcessDocumentCall
    \/ RunExtractSettles
    \/ RunEmbedSettles
    \/ RunInsertSettles

-----------------------------------------------------------------------------
(* searchSimilar (client RAG pipeline) *)

DEFAULT_TOP_K == 5

\* thresholds are in hundredths: 70 is 0.7
DEFAULT_THRESHOLD == 70

\* an option of the options object: left out, or given with a number
Omitted == [given |-> FALSE, n |-> 0]
Given(n) == [given |-> TRUE, n |-> n]

\* options.x || default: the default replaces an option left out and a falsy one
OrDefault(opt, default) == IF ~opt.given \/ opt.n = 0 THEN default ELSE opt.n

SearchThresholds == {0, 50, 100}
SearchTopKs == {0, 1, MaxMatchCount}

SearchOptions ==
    {[topK |-> k, threshold |-> t, documentId |-> doc] :
        k \in {Omitted} \cup {Given(n) : n \in SearchTopKs},
        t \in {Omitted} \cup {Given(n) : n \in SearchThresholds},
        doc \in {NoFilter, "doc1"}}

\* the embeddings table at the time of the search
SearchTables ==
    {t \in Tables : \A i \in 1..Len(t) : t[i].document_id = "doc1" /\ t[i].embedding # NULL}

SearchResult(rows, err) == [results |-> rows, error |-> err]

SearchIdle ==
    /\ qpc = "idle"
    /\ searchQuery = <<>>
    /\ searchOptions = [topK |-> Omitted, threshold |-> Omitted, documentId |-> NoFilter]
    /\ searchArgs = [none |-> TRUE]
    /\ searchResult = [none |-> TRUE]

\* searchSimilar is called: unconfigured it returns at once, otherwise
\* generateEmbedding(query) is awaited
SearchSimilar(q, opts) ==
    /\ qpc = "idle"
    /\ searchQuery' = q
    /\ searchOptions' = opts
    /\ IF ~supabaseEnv \/ ~geminiKey
       THEN /\ searchResult' = SearchResult(<<>>, "Services not configured")
            /\ qpc' = "done"
            /\ UNCHANGED netCalls
       ELSE /\ netCalls' = netCalls + 1
            /\ qpc' = "embedding"
            /\ UNCHANGED searchResult
    /\ UNCHANGED <<searchArgs, dbChunks, dbEmbeddings>>
    /\ UNCHANGED <<chunkVars, paraVars, envVars, ingestVars, retrVars, matchVars, leadVars,
                   embedVars, notSearchVars>>

SearchSimilarCall ==
    /\ qpc = "idle"
    /\ \E q \in Queries, opts \in SearchOptions : SearchSimilar(q, opts)

\* generateEmbedding settles: its error is thrown on, a missing client throws,
\* otherwise match_embeddings is called with the arguments built from the
\* options
SearchEmbedSettle(o) ==
    /\ qpc = "embedding"
    /\ LET res == EmbeddingResult(searchQuery, o)
       IN IF res.error # "none"
          THEN /\ searchResult' = SearchResult(<<>>, res.error)
               /\ qpc' = "done"
               /\ UNCHANGED searchArgs
          ELSE IF ~clientReady
          THEN /\ searchResult' = SearchResult(<<>>, "Supabase client not available")
               /\ qpc' = "done"
               /\ UNCHANGED searchArgs
          ELSE /\ searchArgs' =
                     [query_embedding |-> res.embedding,
                      match_threshold |-> OrDefault(searchOptions.threshold, DEFAULT_THRESHOLD),
                      match_count |-> OrDefault(searchOptions.topK, DEFAULT_TOP_K),
                      filter_document_id |-> searchOptions.documentId]
               /\ qpc' = "rpc"
               /\ UNCHANGED searchResult
    /\ UNCHANGED <<searchQuery, searchOptions, storeVars>>
    /\ UNCHANGED <<chunkVars, paraVars, envVars, ingestVars, retrVars, matchVars, leadVars,
                   embedVars, notSearchVars>>

SearchEmbedSettles ==
    /\ qpc = "embedding"
    /\ \E o \in FetchOutcomes : SearchEmbedSettle(o)

\* the match_embeddings call settles: with the rows r, with no data, with an
\* error result or by throwing
SearchRpcSettle(o, r) ==
    /\ qpc = "rpc"
    /\ searchResult' =
          IF o = "ok"
          THEN SearchResult([k \in 1..Len(r) |->
                                MatchRow(dbEmbeddings, searchArgs.query_embedding, r[k])],
                            "none")
          ELSE IF o = "no_data" THEN SearchResult(<<>>, "none")
          ELSE SearchResult(<<>>, o)
    /\ qpc' = "done"
    /\ UNCHANGED <<searchQuery, searchOptions, searchArgs, storeVars>>
    /\ UNCHANGED <<chunkVars, paraVars, envVars, ingestVars, retrVars, matchVars, leadVars,
                   embedVars, notSearchVars>>

SearchRpcSettles ==
    /\ qpc = "rpc"
    /\ \E o \in {"ok", "no_data", "error", "throw"} :
          \E r \in MatchEmbeddings(dbEmbeddings, searchArgs.query_embedding,
                                   searchArgs.match_threshold, searchArgs.match_count,
                                   searchArgs.filter_document_id) :
              SearchRpcSettle(o, r)

SearchNext ==
    \/ SearchSimilarCall
    \/ SearchEmbedSettles
    \/ SearchRpcSettles

-----------------------------------------------------------------------------
(* POST /webhook of the Telegram route: updates of one chat, each handled by *)
(* its own run of the handler over the chat's entry of userStates           *)

MaxUpdates == 3     \* updates of the chat handled in one behaviour

Updates == 1..MaxUpdates

\* the message texts told apart: /start, a confirmation, a refusal, a request
\* for a site visit, a date, and a request to explore with a name and a phone
TgTexts == {"/start", "yes", "no", "site visit", "2024-12-15 10:00",
            "find property Rahul 9876543210"}

\* dateRegex.test(text)
IsVisitDate(t) == t = "2024-12-15 10:00"

\* confirmWords.some(w => text.toLowerCase().includes(w))
HasConfirmWord(t) == t = "yes"

\* isSiteVisitRequest(text)
IsSiteVisitRequest(t) == t = "site visit"

\* wantsToExplore, and extractLeadInfo finds a name and a phone
LeadExtracted(t) == t = "find property Rahul 9876543210"

\* no pending lead
NoLead == 0

\* the entry getUserState creates for a chat
NewUserState ==
    [created |-> TRUE, waitingForVisitDate |-> FALSE, waitingForLeadConfirm |-> FALSE,
     pendingLead |-> NoLead]

\* getUserState(chatId): the entry of the chat, created at the first call
GetUserState(st) == IF st.created THEN st ELSE NewUserState

TgIdle ==
    /\ tgState = [NewUserState EXCEPT !.created = FALSE]
    /\ tgHandlers = [h \in Updates |-> [pc |-> "idle", text |-> "none"]]
    /\ crmCalls = <<>>
    /\ leadSeq = 0

\* the handler of update h runs from the top to its first await
TgWebhook(h, t) ==
    /\ tgHandlers[h].pc = "idle"
    /\ LET st == GetUserState(tgState)
           at(pc) == [tgHandlers EXCEPT ![h] = [pc |-> pc, text |-> t]]
       IN IF t = "/start"
          THEN /\ tgState' = [st EXCEPT !.waitingForVisitDate = FALSE,
                                        !.waitingForLeadConfirm = FALSE]
               /\ tgHandlers' = at("sending")
               /\ UNCHANGED crmCalls
          ELSE IF st.waitingForVisitDate
          THEN /\ tgState' = [st EXCEPT !.waitingForVisitDate = FALSE]
               /\ tgHandlers' = at(IF IsVisitDate(t) THEN "scheduling" ELSE "sending")
               /\ UNCHANGED crmCalls
          ELSE IF st.waitingForLeadConfirm /\ st.pendingLead # NoLead
          THEN IF HasConfirmWord(t)
               THEN /\ crmCalls' = Append(crmCalls, st.pendingLead)
                    /\ tgState' = st
                    /\ tgHandlers' = at("crm")
               ELSE /\ tgState' = [st EXCEPT !.waitingForLeadConfirm = FALSE,
                                             !.pendingLead = NoLead]
                    /\ tgHandlers' = at("sending")
                    /\ UNCHANGED crmCalls
          ELSE IF IsSiteVisitRequest(t)
          THEN /\ tgState' = [st EXCEPT !.waitingForVisitDate = TRUE]
               /\ tgHandlers' = at("sending")
               /\ UNCHANGED crmCalls
          ELSE /\ tgState' = st
               /\ tgHandlers' = at("ai")
               /\ UNCHANGED crmCalls
    /\ UNCHANGED leadSeq
    /\ UNCHANGED <<coreVars, notTgVars>>

TgWebhookCall ==
    \E h \in Updates :
        /\ tgHandlers[h].pc = "idle"
        /\ \E t \in TgTexts : TgWebhook(h, t)

\* await createCRMLead(state.pendingLead) is over, whatever it returned: the
\* confirmation flags are cleared
TgCrmSettles ==
    \E h \in Updates :
        /\ tgHandlers[h].pc = "crm"
        /\ tgState' = [tgState EXCEPT !.waitingForLeadConfirm = FALSE,
                                      !.pendingLead = NoLead]
        /\ tgHandlers' = [tgHandlers EXCEPT ![h].pc = "sending"]
        /\ UNCHANGED <<crmCalls, leadSeq>>
        /\ UNCHANGED <<coreVars, notTgVars>>

\* await scheduleSiteVisit(...) is over
TgScheduleSettles ==
    \E h \in Updates :
        /\ tgHandlers[h].pc = "scheduling"
        /\ tgHandlers' = [tgHandlers EXCEPT ![h].pc = "sending"]
        /\ UNCHANGED <<tgState, crmCalls, leadSeq>>
        /\ UNCHANGED <<coreVars, notTgVars>>

\* logConversation, getRagContext and the fetch of getSmartAIResponse are over
\* with outcome o for the fetch: with an answer, a lead found in the message
\* becomes the pending lead
TgAiSettle(h, o) ==
    /\ tgHandlers[h].pc = "ai"
    /\ IF geminiKey /\ o = "ok" /\ LeadExtracted(tgHandlers[h].text)
       THEN /\ leadSeq' = leadSeq + 1
            /\ tgState' = [tgState EXCEPT !.pendingLead = leadSeq + 1,
                                          !.waitingForLeadConfirm = TRUE]
       ELSE UNCHANGED <<leadSeq, tgState>>
    /\ tgHandlers' = [tgHandlers EXCEPT ![h].pc = "sending"]
    /\ UNCHANGED crmCalls
    /\ UNCHANGED <<coreVars, notTgVars>>

TgAiSettles ==
    \E h \in Updates :
        /\ tgHandlers[h].pc = "ai"
        /\ \E o \in {"ok", "http_error", "network_error"} : TgAiSettle(h, o)

\* the reply is logged and sent; the handler ends
TgSendSettles ==
    \E h \in Updates :
        /\ tgHandlers[h].pc = "sending"
        /\ tgHandlers' = [tgHandlers EXCEPT ![h].pc = "done"]
        /\ UNCHANGED <<tgState, crmCalls, leadSeq>>
        /\ UNCHANGED <<coreVars, notTgVars>>

TgNext ==
    \/ TgWebhookCall
    \/ TgCrmSettles
    \/ TgScheduleSettles
    \/ TgAiSettles
    \/ TgSendSettles

-----------------------------------------------------------------------------
(* uploadBrochure (flows/upload_brochure.js) *)

PDF_MIME == "application/pdf"
DOCX_MIME == "application/vnd.openxmlformats-officedocument.wordprocessingml.document"

ALLOWED_MIME_TYPES == {PDF_MIME, DOCX_MIME}

ALLOWED_EXTENSIONS == {<<".", "p", "d", "f">>, <<".", "d", "o", "c", "x">>}

\* String.prototype.toLowerCase on the letters that occur in the file names
LowerChar(c) ==
    CASE c = "A" -> "a" [] c = "P" -> "p" [] c = "D" -> "d" [] c = "F" -> "f"
      [] OTHER -> c

ToLowerCase(s) == [i \in 1..Len(s) |-> LowerChar(s[i])]

\* the class [a-zA-Z0-9._-] of the file names
SafeChars == {"a", "b", "c", "d", "f", "o", "p", "t", "x", "A", "P", "D", "F", ".", "_", "-"}

\* name.replace(/[^a-zA-Z0-9._-]/g, '_')
SanitizeFileName(name) == [i \in 1..Len(name) |-> IF name[i] \in SafeChars THEN name[i] ELSE "_"]

\* name.toLowerCase().substring(name.lastIndexOf('.'))
Extension(name) ==
    LET from == Max(LastIndexOf(name, ".", Len(name)), 0)
    IN SubSeq(ToLowerCase(name), from + 1, Len(name))

\* the file argument: null, or an object with a name, a type and content or not
NoFile == [present |-> FALSE, name |-> <<>>, type |-> "", content |-> FALSE]

FileNames ==
    {<<>>, <<"a", ".", "p", "d", "f">>, <<"A", ".", "P", "D", "F">>,
     <<"a", " ", "b", ".", "d", "o", "c", "x">>, <<"a", ".", "t", "x", "t">>,
     <<"p", "d", "f">>}

FileTypes == {"", PDF_MIME, DOCX_MIME, "text/plain"}

Files ==
    {NoFile} \cup {[present |-> TRUE, name |-> n, type |-> t, content |-> c] :
                      n \in FileNames, t \in FileTypes, c \in BOOLEAN}

\* validateFile: the error, or "valid"
ValidateFile(file) ==
    IF ~file.present THEN "No file provided"
    ELSE IF file.name = <<>> \/ file.type = ""
    THEN "Invalid file object: missing name or type"
    ELSE IF ~file.content THEN "Invalid file object: no file content"
    ELSE IF file.type \notin ALLOWED_MIME_TYPES THEN "Invalid file type"
    ELSE IF Extension(file.name) \notin ALLOWED_EXTENSIONS THEN "Invalid file extension"
    ELSE "valid"

\* the moments Date.now() may return
Timestamps == {1, 2}

\* `${timestamp}_${sanitizedFileName}`
StoragePath(ts, name) == [timestamp |-> ts, name |-> SanitizeFileName(name)]

NoPath == [timestamp |-> 0, name |-> <<>>]

UploadFailure(msg) == [success |-> FALSE, error |-> msg]

UploadSuccess(id, path) == [success |-> TRUE, document_id |-> id, file_url |-> path]

\* the row inserted into documents; its id is given by the table
DocumentRow(id, file, path, dtype) ==
    [id |-> id, file_name |-> path.name, file_type |-> file.type, file_url |-> path,
     document_type |-> dtype]

UploadIdle ==
    /\ upc = "idle"
    /\ uFile = NoFile
    /\ uPath = NoPath
    /\ bucket = {}
    /\ dbDocuments = <<>>
    /\ uresult = [none |-> TRUE]

\* uploadBrochure is called: validateFile, createServiceClient (which throws
\* without the environment), then the storage upload is awaited
UploadBrochure(file, ts) ==
    /\ upc = "idle"
    /\ uFile' = file
    /\ IF ValidateFile(file) # "valid"
       THEN /\ uresult' = UploadFailure(ValidateFile(file))
            /\ upc' = "done"
            /\ UNCHANGED uPath
       ELSE IF ~supabaseEnv
       THEN /\ uresult' = UploadFailure("Missing required environment variables")
            /\ upc' = "done"
            /\ UNCHANGED uPath
       ELSE /\ uPath' = StoragePath(ts, file.name)
            /\ upc' = "uploading"
            /\ UNCHANGED uresult
    /\ UNCHANGED <<bucket, dbDocuments>>
    /\ UNCHANGED <<coreVars, notUploadVars>>

UploadBrochureCall ==
    /\ upc = "idle"
    /\ \E file \in Files, ts \in Timestamps : UploadBrochure(file, ts)

\* the storage upload settles: stored, refused with an error result, or thrown
UploadSettle(o) ==
    /\ upc = "uploading"
    /\ IF o = "ok"
       THEN /\ bucket' = bucket \cup {uPath}
            /\ upc' = "inserting"
            /\ UNCHANGED uresult
       ELSE /\ uresult' = UploadFailure(IF o = "error" THEN "Storage upload failed" ELSE o)
            /\ upc' = "done"
            /\ UNCHANGED bucket
    /\ UNCHANGED <<uFile, uPath, dbDocuments>>
    /\ UNCHANGED <<coreVars, notUploadVars>>

UploadSettles ==
    /\ upc = "uploading"
    /\ \E o \in DbOutcomes : UploadSettle(o)

\* the insert into documents settles: with the row, with an error result (the
\* uploaded file is then removed, which is awaited) or by throwing
DocInsertSettle(o, dtype) ==
    /\ upc = "inserting"
    /\ IF o = "ok"
       THEN /\ dbDocuments' = Append(dbDocuments,
                                     DocumentRow(Len(dbDocuments) + 1, uFile, uPath, dtype))
            /\ uresult' = UploadSuccess(Len(dbDocuments) + 1, uPath)
            /\ upc' = "done"
       ELSE IF o = "error"
       THEN /\ upc' = "cleaning"
            /\ UNCHANGED <<dbDocuments, uresult>>
       ELSE /\ uresult' = UploadFailure(o)
            /\ upc' = "done"
            /\ UNCHANGED dbDocuments
    /\ UNCHANGED <<uFile, uPath, bucket>>
    /\ UNCHANGED <<coreVars, notUploadVars>>

DocInsertSettles ==
    /\ upc = "inserting"
    /\ \E o \in DbOutcomes, dtype \in DocTypes : DocInsertSettle(o, dtype)

\* the removal of the uploaded file settles: removed, refused with an error
\* result (which is not looked at) or thrown (caught by the outer catch)
RemoveSettle(o) ==
    /\ upc = "cleaning"
    /\ bucket' = IF o = "ok" THEN bucket \ {uPath} ELSE bucket
    /\ uresult' = UploadFailure(IF o = "throw" THEN o ELSE "Database insert failed")
    /\ upc' = "done"
    /\ UNCHANGED <<uFile, uPath, dbDocuments>>
    /\ UNCHANGED <<coreVars, notUploadVars>>

RemoveSettles ==
    /\ upc = "cleaning"
    /\ \E o \in DbOutcomes : RemoveSettle(o)

UploadNext ==
    \/ UploadBrochureCall
    \/ UploadSettles
    \/ DocInsertSettles
    \/ RemoveSettles

RestIdle == RagIdle /\ RunsIdle /\ SearchIdle /\ TgIdle /\ UploadIdle

-----------------------------------------------------------------------------
(* Specifications *)

ChunkInit == ChunkIdle /\ ParaIdle /\ EnvSet /\ StoresEmpty /\ IngestIdle /\ RetrieveIdle /\ MatchIdle /\ LeadIdle /\ EmbedIdle /\ RestIdle

ParaInit == ChunkIdle /\ ParaIdle /\ EnvSet /\ StoresEmpty /\ IngestIdle /\ RetrieveIdle /\ MatchIdle /\ LeadIdle /\ EmbedIdle /\ RestIdle

SpecParagraph == ParaInit /\ [][ParaNext]_vars

IngestInit == ChunkIdle /\ ParaIdle /\ EnvAny /\ StoresEmpty /\ IngestIdle /\ RetrieveIdle /\ MatchIdle /\ LeadIdle /\ EmbedIdle /\ RestIdle

SpecIngest == IngestInit /\ [][IngestNext]_vars

RetrieveInit ==
    /\ ChunkIdle /\ ParaIdle /\ EnvAny /\ IngestIdle /\ RetrieveIdle /\ MatchIdle /\ LeadIdle /\ EmbedIdle /\ RestIdle
    /\ dbChunks \in StoredRows
    /\ dbEmbeddings = <<>>
    /\ netCalls = 0

SpecRetrieve == RetrieveInit /\ [][RetrieveNext]_vars

SpecChunk == ChunkInit /\ [][ChunkNext]_vars

SpecScenario == ChunkInit /\ [][ScenarioNext]_vars

LeadInit ==
    /\ ChunkIdle /\ ParaIdle /\ EnvAny /\ StoresEmpty /\ IngestIdle /\ RetrieveIdle
    /\ MatchIdle /\ LeadIdle /\ EmbedIdle /\ RestIdle

SpecLead == LeadInit /\ [][LeadNext]_vars

\* both tables hold the same rows at the time of the search
MatchInit ==
    /\ ChunkIdle /\ ParaIdle /\ EnvSet /\ IngestIdle /\ RetrieveIdle /\ MatchIdle /\ LeadIdle /\ EmbedIdle /\ RestIdle
    /\ dbChunks \in Tables
    /\ dbEmbeddings = dbChunks
    /\ netCalls = 0

SpecMatch == MatchInit /\ [][MatchNext]_vars

EmbedInit ==
    /\ ChunkIdle /\ ParaIdle /\ EnvAny /\ StoresEmpty /\ IngestIdle /\ RetrieveIdle
    /\ MatchIdle /\ LeadIdle /\ EmbedIdle /\ RestIdle

SpecEmbed == EmbedInit /\ [][EmbedNext]_vars

SpecRag == RetrieveInit /\ [][RagNext]_vars

SpecRuns == IngestInit /\ [][RunsNext]_vars

SearchInit ==
    /\ ChunkIdle /\ ParaIdle /\ EnvAny /\ IngestIdle /\ RetrieveIdle
    /\ MatchIdle /\ LeadIdle /\ EmbedIdle /\ RestIdle
    /\ dbEmbeddings \in SearchTables
    /\ dbChunks = <<>>
    /\ netCalls = 0

SpecSearch == SearchInit /\ [][SearchNext]_vars

SpecTelegram == IngestInit /\ [][TgNext]_vars

SpecUpload == IngestInit /\ [][UploadNext]_vars

-----------------------------------------------------------------------------
(* Claims about splitIntoChunks, checked under SpecChunk *)

\* the maximal runs of non-whitespace characters of s, in order
WordsOf(s) ==
    LET F[i \in 0..Len(s)] ==
            IF i = 0 THEN <<>>
            ELSE IF IsSpace(s[i]) THEN F[i-1]
            ELSE IF i > 1 /\ ~IsSpace(s[i-1])
                 THEN [F[i-1] EXCEPT ![Len(F[i-1])] = Append(@, s[i])]
                 ELSE Append(F[i-1], <<s[i]>>)
    IN F[Len(s)]

RECURSIVE JoinBySpace(_)
JoinBySpace(ws) ==
    IF ws = <<>> THEN <<>>
    ELSE IF Len(ws) = 1 THEN ws[1]
    ELSE ws[1] \o <<" ">> \o JoinBySpace(Tail(ws))

\* position p of cleanText lies in an emitted chunk
Covered(p) == \E i \in 1..Len(spans) : spans[i][1] <= p /\ p < spans[i][2]

\* C6: with 0 <= overlap < chunkSize every iteration of the loop moves start
\* forward, so the loop terminates.
C6_ForwardProgress ==
    [][(cpc = "loop" /\ cpc' = "loop" /\ overlap < chunkSize) => start' > start]_vars

\* overlap is at most half of chunkSize
HalfOverlap == 0 <= overlap /\ 2 * overlap <= chunkSize

\* C25: with 0 <= overlap <= chunkSize / 2, start is never negative, every
\* iteration of the loop moves it forward, and the loop runs at most as many
\* iterations as the normalized text has characters.
C25_Termination ==
    /\ [](HalfOverlap => (start >= 0 /\ iters <= Len(cleanText)))
    /\ [][(HalfOverlap /\ iters' = iters + 1) => start' > start]_vars

C25_Witness ==
    /\ cpc = "done"
    /\ chunkSize = 4
    /\ overlap = 2
    /\ iters = 3
    /\ \E i \in 1..Len(spans) : spans[i][2] - spans[i][1] < chunkSize /\ spans[i][2] < Len(cleanText)

\* C26: the loop stops after the first chunk whose span reaches the end of
\* the normalized text: no chunk's span lies wholly inside the span of the
\* chunk emitted just before it.
C26_NoContainedChunk ==
    \A i \in 2..Len(spans) :
        ~(spans[i - 1][1] <= spans[i][1] /\ spans[i][2] <= spans[i - 1][2])

\* C7: a call with overlap >= chunkSize is rejected: it neither enters the loop
\* nor returns a chunk.
C7_OverlapRejected ==
    (cpc # "idle" /\ overlap >= chunkSize) => (cpc = "rejected" /\ chunks = <<>>)

C9_ChunksNonEmpty == \A i \in 1..Len(chunks) : Len(chunks[i]) > 0

\* C9 for chunkDocument (holds under SpecParagraph): no emitted chunk has empty
\* content, and a blank text gives no chunk.
ChunkDocumentNonEmpty ==
    /\ \A i \in 1..Len(dChunks) : Len(dChunks[i].content) > 0
    /\ (dpc = "done" /\ Trim(dText) = <<>>) => dChunks = <<>>

\* C10 as stated: the emitted chunks hold every character position of the
\* normalized text.
C10_EveryPositionCovered ==
    cpc = "done" => \A p \in 0..(Len(cleanText) - 1) : Covered(p)

\* C10 amended: the emitted chunks hold every non-whitespace position of the
\* normalized text, and every position when overlap >= 2.
C10_NonSpaceCovered ==
    cpc = "done" =>
        \A p \in 0..(Len(cleanText) - 1) :
            (~IsSpace(cleanText[p+1]) \/ overlap >= 2) => Covered(p)

C10_Witness ==
    /\ cpc = "done"
    /\ Len(chunks) >= 2
    /\ overlap < 2
    /\ \E p \in 0..(Len(cleanText) - 1) : ~Covered(p)

\* the number of positions of cleanText that chunk i and chunk i + 1 both hold
SplitSharedLen(i) ==
    Max(0, Min(spans[i][2], spans[i+1][2]) - Max(spans[i][1], spans[i+1][1]))

\* C11 for splitIntoChunks (holds under SpecChunk): two adjacent chunks share at
\* most overlap positions of the normalized text.
SplitBoundedOverlap ==
    \A i \in 1..(Len(spans) - 1) : SplitSharedLen(i) <= overlap

\* s.replace(/ +/g, ' '): every run of spaces becomes one space
ReplaceSpaceRuns(s) ==
    LET F[i \in 0..Len(s)] ==
            IF i = 0 THEN <<>>
            ELSE IF s[i] # " " THEN Append(F[i-1], s[i])
            ELSE IF i > 1 /\ s[i-1] = " " THEN F[i-1]
            ELSE Append(F[i-1], " ")
    IN F[Len(s)]

\* C16: the normalized text is the text with every run of newlines collapsed to
\* one newline, every run of other whitespace collapsed to one space, and both
\* ends trimmed; a newline of the text survives as a single newline.
C16_NewlinesSurvive ==
    cpc # "idle" => cleanText = Trim(ReplaceSpaceRuns(ReplaceNlRuns(text)))

\* C19: no returned chunk is longer than chunkSize, and snapping never moves
\* the end of a chunk beyond start + chunkSize.
C19_ChunkWithinSize ==
    /\ \A i \in 1..Len(chunks) : Len(chunks[i]) <= chunkSize
    /\ (cpc = "loop" /\ start >= 0 /\ start < Len(cleanText))
          => ChunkEnd(cleanText, chunkSize, start) <= start + chunkSize

-----------------------------------------------------------------------------
(* Claims about splitIntoChunks on 2,500 characters, checked under        *)
(* SpecScenario                                                             *)

\* the characters by which snapping to a boundary may lengthen a chunk
SnapSlack == 1

\* C17 (Scenario A): a normalized text of 2,500 characters with chunkSize 900
\* and overlap 100 gives 3 or 4 chunks, each of at most 900 characters plus the
\* snap slack, adjacent ones sharing at most 100 characters.
C17_ScenarioA ==
    cpc = "done" =>
        /\ Len(chunks) \in {3, 4}
        /\ \A i \in 1..Len(chunks) : Len(chunks[i]) <= CHUNK_SIZE + SnapSlack
        /\ \A i \in 1..(Len(spans) - 1) : SplitSharedLen(i) <= CHUNK_OVERLAP

-----------------------------------------------------------------------------
(* Claims about chunkDocument, checked under SpecParagraph *)

\* the length of the region chunk i and chunk i + 1 share: the longest suffix of
\* the content of chunk i, no longer than the words carried over at the flush,
\* that the content of chunk i + 1 starts with
SharedLen(i) ==
    LET a == dChunks[i].content
        b == dChunks[i+1].content
        ks == {k \in 0..Min(seedLens[i], Min(Len(a), Len(b))) :
                  SubSeq(a, Len(a) - k + 1, Len(a)) = SubSeq(b, 1, k)}
    IN CHOOSE k \in ks : \A j \in ks : j <= k

\* C11: two adjacent chunks of one chunking run share at most overlap
\* characters.
C11_BoundedOverlap ==
    dpc = "done" => \A i \in 1..(Len(dChunks) - 1) : SharedLen(i) <= dOverlap

\* C13: every chunk of chunkDocument has 0 <= charStart <= charEnd <= the
\* length of the source text.
C13_OffsetsInRange ==
    \A i \in 1..Len(dChunks) :
        /\ 0 <= dChunks[i].charStart
        /\ dChunks[i].charStart <= dChunks[i].charEnd
        /\ dChunks[i].charEnd <= Len(dText)

\* the last k elements of a: none for k = 0, all of a for k >= Len(a)
LastWords(a, k) == IF k >= Len(a) THEN a ELSE SubSeq(a, Len(a) - k + 1, Len(a))

\* C20: a flush in the loop leaves as the new buffer exactly the last
\* floor(overlap / 5) words of the flushed buffer followed by the new paragraph,
\* overlap being the value the caller supplied.
C20_SeedIsLastWords ==
    [][(dpc = "loop" /\ dpc' = "loop" /\ Len(dChunks') = Len(dChunks) + 1) =>
          currentChunk' = JoinBy(LastWords(SplitBy(currentChunk, <<" ">>),
                                           dOptions.overlap \div 5), <<" ">>)
                          \o <<" ">> \o paragraphs[pIdx]]_vars

-----------------------------------------------------------------------------
(* Claims about match_documents / match_embeddings, checked under SpecMatch *)

\* the table the function called reads
SearchedTable == IF mFn = "match_documents" THEN dbChunks ELSE dbEmbeddings

\* C12: the rows a match function returns are rows of the table with their
\* similarity to the query; each has similarity > match_threshold, there are at
\* most match_count of them, they come by similarity descending, and with a
\* document filter all are rows of that document.
C12_MatchContract ==
    mFn # "none" =>
        /\ \A k \in 1..Len(mResult) :
              /\ mResult[k].id \in 1..Len(SearchedTable)
              /\ mResult[k] = MatchRow(SearchedTable, mArgs.query_embedding, mResult[k].id)
              /\ mResult[k].similarity > mArgs.match_threshold
              /\ mArgs.filter_document_id # NoFilter
                    => mResult[k].document_id = mArgs.filter_document_id
        /\ Len(mResult) <= mArgs.match_count
        /\ \A j, k \in 1..Len(mResult) :
              j < k => mResult[j].similarity >= mResult[k].similarity

\* a filtered search that returns match_count = 2 rows in an order other than
\* the table's, leaving out a row of another document above the threshold
C12_Witness ==
    /\ mFn = "match_embeddings"
    /\ mArgs.filter_document_id = "doc1"
    /\ mArgs.match_count = 2
    /\ Len(mResult) = 2
    /\ mResult[1].id > mResult[2].id
    /\ mResult[1].similarity > mResult[2].similarity
    /\ \E i \in 1..Len(dbEmbeddings) :
          /\ dbEmbeddings[i].document_id = "doc2"
          /\ Similarity(dbEmbeddings[i].embedding, mArgs.query_embedding)
                > mArgs.match_threshold

-----------------------------------------------------------------------------
(* Claims about the embedding functions, checked under SpecEmbed *)

\* the call reported that the credential is missing
ReportsConfigurationFailure ==
    IF eFn \in {"generateQueryEmbedding", "server.generateEmbeddings"}
    THEN eResult.kind = "rejected"
         /\ eResult.error \in {"GEMINI_API_KEY is required",
                               "GEMINI_API_KEY is required for embeddings"}
    ELSE eResult.kind = "resolved" /\ eResult.value.error = "API key not configured"

\* C14: with no embedding credential every embedding function, single or batch,
\* reports a configuration failure and makes no network call.
C14_NoCredentialNoCalls ==
    (eFn # "none" /\ ~geminiKey) =>
        /\ epc = "done"
        /\ ReportsConfigurationFailure
        /\ netCalls = 0
        /\ eSettled = <<>>

C14_Witness ==
    /\ ~geminiKey
    /\ eFn = "client.generateEmbeddings"
    /\ Len(eTexts) = 2
    /\ epc = "done"
    /\ eResult.value.embeddings = <<>>
    /\ netCalls = 0

-----------------------------------------------------------------------------
(* Claims about retrieveContext, checked under SpecRetrieve *)

\* C1: whatever the embedding call, the match_documents call and the table
\* query do, retrieveContext resolves (never rejects) to an object with a
\* context string and a chunk count.
C1_NeverRaises ==
    /\ rresult.kind # "rejected"
    /\ rpc = "done" =>
          /\ rresult.kind = "resolved"
          /\ {"context", "chunks"} \subseteq DOMAIN rresult.value
          /\ rresult.value.chunks \in 0..MaxRows
          /\ rresult.value.chunks = 0 => rresult.value.context = <<>>

C1_Witness ==
    /\ rpc = "done"
    /\ {"store_failed", "fallback_query", "fallback_failed"} \subseteq rlog
    /\ rresult.kind = "resolved"
    /\ rresult.value.chunks = 0

\* C2: every result carries a source tag, vector_search or fallback, and when
\* the query embedding or a store call failed the degraded lookup was made and
\* the result is tagged fallback.
C2_FailureTaggedFallback ==
    rpc = "done" =>
        /\ "source" \in DOMAIN rresult.value
        /\ rresult.value.source \in {"vector_search", "fallback"}
        /\ (rlog \cap {"embedding_failed", "store_failed"} # {}) =>
              (rresult.value.source = "fallback" /\ "fallback_query" \in rlog)

\* C21: when the match_documents call succeeds with rows c1..cn (n >= 0),
\* retrieveContext returns source 'vector_search', chunks = n and the contents
\* of c1..cn joined by the separator in the order returned; for n = 0 the
\* context is the empty string and the result carries no error.
C21_VectorSearchContext ==
    (rpc = "done" /\ rpcData.status \in {"ok", "no_data"}) =>
        rresult = [kind |-> "resolved",
                   value |-> [context |-> JoinBy(rpcData.rows, SEPARATOR),
                              chunks |-> Len(rpcData.rows),
                              source |-> "vector_search"]]

\* two rows with different contents were returned
C21_Witness ==
    /\ rpc = "done"
    /\ rpcData.status = "ok"
    /\ Len(rpcData.rows) = 2
    /\ rpcData.rows[1] # rpcData.rows[2]
    /\ rresult.value.source = "vector_search"
    /\ rresult.value.chunks = 2

\* retrieveContext ended in its catch block: the embedding or the store failed
VectorSearchFailed == rresult.kind = "rejected" \/ "error" \in DOMAIN rresult.value

\* C22: when the vector search of a GET /api/rag request fails, the handler has
\* called getSimpleContext and the response carries the context it returned
C22_FallsBackToSimple ==
    (hpc = "done" /\ hresponse.status # 400 /\ VectorSearchFailed) =>
        /\ simpleCalls = 1
        /\ spc = "done"
        /\ hresponse.body.context = sresult.value.context

-----------------------------------------------------------------------------
(* Claims about ingestion, checked under SpecIngest *)

\* the embedding expected for text t when the provider answered with outcome o
ExpectedEmbedding(t, o) == IF o = "ok" THEN Vec(t) ELSE NULL

\* the outcome of the generateEmbedding call for text i of the client batch
OutcomeOfCall(i) == outcomes[CHOOSE k \in 1..Len(order) : order[k] = i]

FailedEmbeddings == Cardinality({i \in 1..Len(outcomes) : outcomes[i] # "ok"})

\* C3: no row is ever inserted with a null embedding, in either pipeline.
C3_NoNullEmbeddingStored ==
    /\ \A i \in 1..Len(dbChunks) : dbChunks[i].embedding # NULL
    /\ \A i \in 1..Len(dbEmbeddings) : dbEmbeddings[i].embedding # NULL

\* C4: the batch embedding functions return one entry per text, entry i being
\* the vector of text i or null where its call failed, whatever the other calls
\* did and in whatever order they settled.
C4_BatchOrderPreserved ==
    /\ pipeline = "processDocument" =>
          /\ Len(embeddings) = Len(outcomes)
          /\ \A i \in 1..Len(embeddings) :
                embeddings[i] = ExpectedEmbedding(docChunks[i], outcomes[i])
          /\ (ipc \in {"saving", "done"} /\ outcomes # <<>>) =>
                Len(embeddings) = Len(docChunks)
    /\ (pipeline = "storeVectors" /\ ipc \in {"inserting", "done"}
        /\ Len(order) = Len(docChunks)) =>
          /\ Len(embeddings) = Len(docChunks)
          /\ \A i \in 1..Len(docChunks) :
                embeddings[i] = ExpectedEmbedding(docChunks[i].content, OutcomeOfCall(i))

C4_Witness ==
    /\ pipeline = "storeVectors"
    /\ ipc = "inserting"
    /\ Len(docChunks) = 3
    /\ order = <<3, 1, 2>>
    /\ outcomes = <<"ok", "http_error", "ok">>
    /\ docChunks[2].content # docChunks[3].content
    /\ embeddings[1] = NULL

\* C5: with k of the n embeddings failed and every insert successful,
\* processDocument returns success with chunks_created = n - k and
\* total_chunks = n; embedding failures alone never make the result a failure.
C5_PartialFailureCounts ==
    (pipeline = "processDocument" /\ ipc = "done" /\ supabaseEnv
     /\ docChunks # <<>> /\ Len(outcomes) = Len(docChunks)) =>
        /\ result.success = TRUE
        /\ result.total_chunks = Len(docChunks)
        /\ (\A i \in 1..Len(inserts) : inserts[i] = "ok") =>
              result.chunks_created = Len(docChunks) - FailedEmbeddings

C5_Witness ==
    /\ pipeline = "processDocument"
    /\ ipc = "done"
    /\ Len(docChunks) = 5
    /\ Len(outcomes) = 5
    /\ \A i \in 1..5 : (outcomes[i] # "ok") <=> (i = 3)
    /\ inserts = <<"ok", "ok", "ok", "ok">>
    /\ result.success = TRUE
    /\ result.chunks_created = 4
    /\ result.total_chunks = 5

\* the chunks of the run that got an embedding
WithEmbedding == {i \in 1..Len(embeddings) : embeddings[i] # NULL}

\* processDocument has called saveChunksToSupabase and the loop has started
ReachedSave ==
    /\ pipeline = "processDocument"
    /\ ipc \in {"saving", "done"}
    /\ supabaseEnv
    /\ docChunks # <<>>
    /\ Len(embeddings) = Len(docChunks)

\* C28: for a run that reaches the save step, chunks_created is the number of
\* rows the run inserted, chunks_created <= chunks with an embedding <=
\* total_chunks, and a failed insert does not stop the inserts that follow it:
\* at the end an insert was attempted for every chunk with an embedding.
C28_SavedCountsInserted ==
    ReachedSave =>
        /\ savedCount = Len(dbChunks)
        /\ savedCount = Cardinality({i \in 1..Len(inserts) : inserts[i] = "ok"})
        /\ savedCount <= Cardinality(WithEmbedding)
        /\ Cardinality(WithEmbedding) <= Len(docChunks)
        /\ ipc = "done" =>
              /\ result = PDSuccess(documentId, savedCount, Len(docChunks))
              /\ Len(inserts) = Cardinality(WithEmbedding)
              /\ \A i \in 1..Len(dbChunks) :
                    \E c \in WithEmbedding : dbChunks[i].content = docChunks[c]

C28_Witness ==
    /\ ReachedSave
    /\ ipc = "done"
    /\ Len(docChunks) = 5
    /\ Cardinality(WithEmbedding) = 4
    /\ inserts = <<"error", "ok", "throw", "ok">>
    /\ result.chunks_created = 2
    /\ result.total_chunks = 5

\* extractText threw, or returned fewer than MinTextLength characters
ExtractionUnusable ==
    /\ extracted # [none |-> TRUE]
    /\ (~extracted.ok \/ Len(extracted.text) < MinTextLength)

\* C15: processDocument returns a result and never throws; when the extraction
\* fails, the type is unsupported or the text has fewer than 10 characters the
\* result is {success: false, error, chunks_created: 0}, no embedding call was
\* made and no chunk row was inserted.
C15_ExtractionFailureIsResult ==
    pipeline = "processDocument" =>
        /\ ipc = "done" => "success" \in DOMAIN result
        /\ ExtractionUnusable =>
              /\ ipc = "done"
              /\ "success" \in DOMAIN result
              /\ result.success = FALSE
              /\ "error" \in DOMAIN result
              /\ result.chunks_created = 0
              /\ netCalls = 0
              /\ inserts = <<>>
              /\ dbChunks = <<>>

\* a text of 9 characters with every credential set
C15_Witness ==
    /\ pipeline = "processDocument"
    /\ geminiKey /\ supabaseEnv
    /\ extracted # [none |-> TRUE]
    /\ extracted.ok
    /\ Len(extracted.text) = MinTextLength - 1
    /\ ipc = "done"
    /\ result = PDFailure("Document contains no extractable text")

-----------------------------------------------------------------------------
(* Claims about createLead, checked under SpecLead *)

\* a string with a character that is not whitespace
NonBlankString(val) == val.t = "string" /\ \E i \in 1..Len(val.v) : ~IsSpace(val.v[i])

\* the field is given: neither undefined nor null
Provided(val) == val.t \notin {"undefined", "null"}

\* the payloads C18 lists as refused
Refused(pl) ==
    \/ pl.kind # "object"
    \/ ~NonBlankString(pl.name)
    \/ ~NonBlankString(pl.phone)
    \/ (Provided(pl.budget) /\ pl.budget.t # "string")
    \/ (Provided(pl.requirement) /\ pl.requirement.t # "string")
    \/ pl.site_visit_requested.t \notin {"undefined", "boolean"}
    \/ (Provided(pl.site_visit_datetime) /\ ~DateIsValid(pl.site_visit_datetime))

\* a payload with a valid name and phone and nothing else
JustNameAndPhone(pl) ==
    /\ pl.kind = "object"
    /\ NonBlankString(pl.name) /\ NonBlankString(pl.phone)
    /\ pl.budget = Undefined /\ pl.requirement = Undefined
    /\ pl.site_visit_requested = Undefined /\ pl.site_visit_datetime = Undefined

\* C18: createLead attempts an insert only for a payload validatePayload
\* accepts; a payload that is no object, has no non-blank string name or phone,
\* a budget or requirement that is given and not a string, a
\* site_visit_requested that is not a boolean or a site_visit_datetime that
\* does not parse is answered with success = false and no insert; a payload
\* with just a valid name and phone is accepted and its insert is attempted.
C18_InsertOnlyValidated ==
    lpc # "idle" =>
        /\ Refused(payload) =>
              /\ lpc = "done"
              /\ lresult.success = FALSE
              /\ leadInsertCalls = 0
              /\ dbLeads = <<>>
        /\ (leadInsertCalls > 0 \/ dbLeads # <<>>) =>
              (ValidatePayload(payload).valid /\ ~Refused(payload))
        /\ JustNameAndPhone(payload) =>
              /\ ValidatePayload(payload).valid
              /\ supabaseEnv => leadInsertCalls = 1

\* a payload whose only fault is a site_visit_datetime that does not parse,
\* with the database configured
C18_Witness ==
    /\ lpc = "done"
    /\ supabaseEnv
    /\ NonBlankString(payload.name) /\ NonBlankString(payload.phone)
    /\ payload.budget.t = "string" /\ payload.requirement.t = "string"
    /\ payload.site_visit_requested.t = "boolean"
    /\ payload.site_visit_datetime = Str(<<"x">>)
    /\ lresult = LeadFailure("site_visit_datetime must be a valid ISO date string")
    /\ leadInsertCalls = 0

-----------------------------------------------------------------------------
(* Claims about two processDocument runs, checked under SpecRuns *)

\* the rows of document_chunks that run r inserted
RowsOfRun(r) == {k \in 1..Len(dbChunks) : rowRun[k] = r}

BothRunsDone == \A r \in Runs : runs[r].pc = "done"

\* every step leaves the rows that exist in place and unchanged
RowsKept ==
    /\ Len(dbChunks') >= Len(dbChunks)
    /\ SubSeq(dbChunks', 1, Len(dbChunks)) = dbChunks

\* the table holds what each of the two runs saved
HoldsRowsOfBoth ==
    /\ Len(dbChunks) = runs[1].savedCount + runs[2].savedCount
    /\ \A r \in Runs :
          /\ Cardinality(RowsOfRun(r)) = runs[r].savedCount
          /\ \A k \in RowsOfRun(r) :
                /\ dbChunks[k].document_id = runs[r].documentId
                /\ dbChunks[k].content \in Range(runs[r].chunks)

\* C23: chunk rows are append-only: no step of document processing updates or
\* deletes an existing row, and after two runs for the same documentId the
\* table holds the rows of both
C23_RowsAppendOnly ==
    /\ [][RowsKept]_vars
    /\ []((BothRunsDone /\ runs[1].documentId = runs[2].documentId) => HoldsRowsOfBoth)

C23_Witness ==
    /\ BothRunsDone
    /\ runs[1].documentId = runs[2].documentId
    /\ runs[1].savedCount = 2
    /\ runs[2].savedCount = 2
    /\ Len(dbChunks) = 4

\* row k is the row its run built from its own arguments and chunks
RowOfOwnRun(k) ==
    LET run == runs[rowRun[k]]
    IN /\ dbChunks[k].document_id = run.documentId
       /\ dbChunks[k].document_type = run.documentType
       /\ \E i \in 1..Len(run.chunks) :
             /\ i <= Len(run.embeddings)
             /\ dbChunks[k].content = run.chunks[i]
             /\ dbChunks[k].embedding = run.embeddings[i]

\* a step of one run leaves the record of the other run as it was
OtherRunUntouched ==
    \A r \in Runs : runs'[r] # runs[r] => \A o \in Runs \ {r} : runs'[o] = runs[o]

\* C24: under any interleaving of two runs, every row carries the documentId,
\* document type and chunk content of the run that inserted it, chunks_created
\* of a run counts the rows that run inserted, and no step of a run changes
\* the state of the other
C24_RunsIndependent ==
    /\ [](\A k \in 1..Len(dbChunks) : RowOfOwnRun(k))
    /\ [](\A r \in Runs :
            runs[r].pc = "done" =>
                runs[r].result.chunks_created = Cardinality(RowsOfRun(r)))
    /\ [][OtherRunUntouched]_vars

C24_Witness ==
    /\ BothRunsDone
    /\ runs[1].documentId # runs[2].documentId
    /\ runs[1].documentType # runs[2].documentType
    /\ rowRun = <<1, 2, 1, 2>>
    /\ runs[1].result.chunks_created = 2

-----------------------------------------------------------------------------
(* Claims about searchSimilar, checked under SpecSearch *)

RpcCalled == "match_threshold" \in DOMAIN searchArgs

\* C29: the match_embeddings call gets the caller's options unchanged: a given
\* threshold in [0, 1] and a given topK are match_threshold and match_count,
\* and the defaults 0.7 and 5 stand in only for an option left out.
C29_OptionsForwarded ==
    RpcCalled =>
        /\ searchArgs.match_threshold =
              IF searchOptions.threshold.given THEN searchOptions.threshold.n
              ELSE DEFAULT_THRESHOLD
        /\ searchArgs.match_count =
              IF searchOptions.topK.given THEN searchOptions.topK.n ELSE DEFAULT_TOP_K

-----------------------------------------------------------------------------
(* Claims about the Telegram webhook, checked under SpecTelegram *)

\* the calls of createCRMLead made with pending lead l
CrmCallsFor(l) == {i \in 1..Len(crmCalls) : crmCalls[i] = l}

\* C27: a pending lead is submitted to the CRM at most once, also when updates
\* of the chat are handled concurrently: createCRMLead is called at most one
\* time with each pendingLead the bot has set.
C27_LeadSubmittedOnce ==
    \A l \in 1..leadSeq : Cardinality(CrmCallsFor(l)) <= 1

-----------------------------------------------------------------------------
(* Claims about uploadBrochure, checked under SpecUpload *)

\* C30: a call that returns success = false leaves nothing behind: no row of
\* documents created by the call and no file uploaded by the call, whether the
\* validation, the upload, the insert or the clean-up failed.
C30_NoPartialState ==
    (upc = "done" /\ ~uresult.success) => (dbDocuments = <<>> /\ bucket = {})

=============================================================================
